---- MODULE Spec2Model ----
(***************************************************************************)
(* Model of scripts/generate_targets.py: the board classifier, the         *)
(* support-tier partitioner, the branch selector, the manifest emitters,   *)
(* the exposure-pattern emitter and main().                                *)
(*                                                                         *)
(* Text is modelled as a sequence of one-character strings wherever the    *)
(* code looks inside it (prefix tests, split, strip, sort, capitalize);    *)
(* a value the code only compares for equality or membership is a string.  *)
(* A key missing from a JSON object and the empty string take the same     *)
(* path at every use in the code (dict.get default '' / truthiness), so a  *)
(* missing string key is modelled by the empty text.                       *)
(***************************************************************************)
EXTENDS Integers, Sequences, FiniteSets, TLC

VARIABLES
    entry,                      \* classifier: the inventory record under classification
    is_fast,                    \* classifier: result of is_fast_hardware(entry)
    extensions,                 \* classifier: result of get_soc_extensions(entry, ...)
    cpc,                        \* classifier: position ("idle", "start", "done")
    extensions_map_file,        \* targets-extensions.map: [exists, lines]
    remove_extensions_map_file, \* targets-extensions.map.blacklist: [exists, lines]
    extensions_map,             \* (board, branch) -> "ext1,ext2"
    remove_extensions_map,      \* (board, branch) -> set of extension names
    stderr,                     \* the "Warning: Failed to parse line" messages printed so far
    image_info_file,            \* image-info.json: [given, exists, parses, data]
    blacklist_files,            \* output -> its .blacklist file: [exists, lines]
    manual_files,               \* output -> its .manual file: [exists, content]
    image_info,                 \* main: the loaded inventory (sequence of records)
    pc,                         \* main: position
    written,                    \* main: output -> [present, content]
    conf_wip_boards_stable,     \* main: the primary group kept for the pattern file
    csc_tvb_boards_community,   \* main: the community group kept for the pattern file
    groups,                     \* partitioner: result of extract_boards_by_support_level
    select_input,               \* selector: the list given to select_one_branch_per_board
    select_result,              \* selector: its result [raised, boards]
    ppc                         \* partitioner and selector: position

classifierVars == <<entry, is_fast, extensions, cpc>>

sidecarVars == <<extensions_map, remove_extensions_map, stderr>>

inputVars == <<extensions_map_file, remove_extensions_map_file, image_info_file, blacklist_files, manual_files>>

keptVars == <<conf_wip_boards_stable, csc_tvb_boards_community>>

mainVars == <<image_info, pc, written, keptVars>>

partitionVars == <<groups, select_input, select_result, ppc>>

vars == <<entry, is_fast, extensions, cpc, extensions_map_file, remove_extensions_map_file, extensions_map, remove_extensions_map, stderr, image_info_file, blacklist_files, manual_files, image_info, pc, written, conf_wip_boards_stable, csc_tvb_boards_community, groups, select_input, select_result, ppc>>

(***************************************************************************)
(* Text literals of the source.                                            *)
(***************************************************************************)
Empty == <<>>

UefiLoong64 == <<"u","e","f","i","-","l","o","o","n","g","6","4">>

Sun50iw == <<"s","u","n","5","0","i","w">>

Sun55iw == <<"s","u","n","5","5","i","w">>

MesonGxbb == <<"m","e","s","o","n","-","g","x","b","b">>

MesonGxl == <<"m","e","s","o","n","-","g","x","l">>

MesonG12a == <<"m","e","s","o","n","-","g","1","2","a">>

MesonG12b == <<"m","e","s","o","n","-","g","1","2","b">>

MesonSm1 == <<"m","e","s","o","n","-","s","m","1">>

NuvotonMa35d1 == <<"n","u","v","o","t","o","n","-","m","a","3","5","d","1">>

Current == <<"c","u","r","r","e","n","t">>

Vendor == <<"v","e","n","d","o","r">>

Legacy == <<"l","e","g","a","c","y">>

Edge == <<"e","d","g","e">>

SlowAmlogicFamilies == {MesonGxbb, MesonGxl, MesonG12a, MesonG12b, MesonSm1}

SlowRockchipSocs == {"rk3328", "rk3399", "rk3399pro"}

Slow32BitArchs == {"arm", "armhf"}

(***************************************************************************)
(* str.startswith                                                          *)
(***************************************************************************)
StartsWith(s, prefix) ==
    /\ Len(s) >= Len(prefix)
    /\ SubSeq(s, 1, Len(prefix)) = prefix

(***************************************************************************)
(* is_fast_hardware: the fields it reads, with their fallbacks.            *)
(***************************************************************************)
\* inventory.get('BOARD_HAS_VIDEO', False), used as "not has_video": the raw
\* JSON value is "true", "false" or "absent" (key missing).
\* Mutant: a missing BOARD_HAS_VIDEO key defaults to True.
HasVideo_DefaultTrue(e) == e.in.inventory.BOARD_HAS_VIDEO # "false"

HasVideo(e) == e.in.inventory.BOARD_HAS_VIDEO = "true"

\* BOARDFAMILY of the inventory, else of BOARD_TOP_LEVEL_VARS.
BoardFamilyOf(e) ==
    IF e.in.inventory.BOARDFAMILY # Empty
    THEN e.in.inventory.BOARDFAMILY
    ELSE e.in.inventory.BOARD_TOP_LEVEL_VARS.BOARDFAMILY

\* BOOT_SOC of the inventory, else of BOARD_TOP_LEVEL_VARS, else of out.
BootSocOf(e) ==
    IF e.in.inventory.BOOT_SOC # ""
    THEN e.in.inventory.BOOT_SOC
    ELSE IF e.in.inventory.BOARD_TOP_LEVEL_VARS.BOOT_SOC # ""
         THEN e.in.inventory.BOARD_TOP_LEVEL_VARS.BOOT_SOC
         ELSE e.out.BOOT_SOC

IsReferenceBoard(board) == board = UefiLoong64

IsSlowAllwinner(board_family) ==
    /\ board_family # Empty
    /\ (StartsWith(board_family, Sun50iw) \/ StartsWith(board_family, Sun55iw))

IsSlowAmlogic(board_family) == board_family \in SlowAmlogicFamilies

IsSlowNuvoton(board_family) == board_family = NuvotonMa35d1

\* Mutant: rk3399pro is missing from the slow Rockchip list.
IsSlowRockchip_NoPro(boot_soc) == boot_soc \in {"rk3328", "rk3399"}

IsSlowRockchip(boot_soc) == boot_soc \in SlowRockchipSocs

\* Mutant: the 32-bit test comes before the reference-board special case.
CategoryWithVideo_ArchFirst(board, arch, board_family, boot_soc) ==
    IF arch \in Slow32BitArchs THEN "False"
    ELSE IF IsReferenceBoard(board) THEN "loongarch"
    ELSE IF IsSlowAllwinner(board_family) THEN "False"
    ELSE IF IsSlowAmlogic(board_family) THEN "False"
    ELSE IF IsSlowNuvoton(board_family) THEN "False"
    ELSE IF IsSlowRockchip(boot_soc) THEN "False"
    ELSE IF arch = "riscv64" THEN "riscv64"
    ELSE IF arch = "loongarch64" THEN "loongarch"
    ELSE "True"

\* The tail of is_fast_hardware, once the board is known to have video.
\* Results: "True" (fast), "False" (slow), "riscv64", "loongarch".
CategoryWithVideo(board, arch, board_family, boot_soc) ==
    IF IsReferenceBoard(board) THEN "loongarch"
    ELSE IF arch \in Slow32BitArchs THEN "False"
    ELSE IF IsSlowAllwinner(board_family) THEN "False"
    ELSE IF IsSlowAmlogic(board_family) THEN "False"
    ELSE IF IsSlowNuvoton(board_family) THEN "False"
    ELSE IF IsSlowRockchip(boot_soc) THEN "False"
    ELSE IF arch = "riscv64" THEN "riscv64"
    ELSE IF arch = "loongarch64" THEN "loongarch"
    ELSE "True"

\* is_fast_hardware(entry); "None" is the headless result.
is_fast_hardware(e) ==
    IF ~HasVideo(e) THEN "None"
    ELSE CategoryWithVideo(e.in.inventory.BOARD, e.out.ARCH,
                           BoardFamilyOf(e), BootSocOf(e))

(***************************************************************************)
(* str.split(sep), str.strip(), sep.join(list) on texts.                   *)
(***************************************************************************)
Whitespace == {" ", "\t"}

RECURSIVE SplitFrom(_, _, _)
\* The pieces of s separated by the text sep, left to right; piece is the text
\* collected so far.  Like str.split(sep): empty pieces are kept.
SplitFrom(s, sep, piece) ==
    IF Len(s) < Len(sep) THEN <<piece \o s>>
    ELSE IF StartsWith(s, sep)
         THEN <<piece>> \o SplitFrom(SubSeq(s, Len(sep) + 1, Len(s)), sep, <<>>)
         ELSE SplitFrom(Tail(s), sep, Append(piece, Head(s)))

\* s.split(sep) for a one-character separator.
Split(s, sep) == SplitFrom(s, <<sep>>, <<>>)

\* s.split(sep) for a separator text.
SplitText(s, sep) == SplitFrom(s, sep, <<>>)

\* sub in s
Contains(s, sub) ==
    \E i \in 1..(Len(s) - Len(sub) + 1) : SubSeq(s, i, i + Len(sub) - 1) = sub

RECURSIVE LStripChars(_, _)
LStripChars(s, chars) ==
    IF s # <<>> /\ Head(s) \in chars THEN LStripChars(Tail(s), chars) ELSE s

RECURSIVE RStripChars(_, _)
RStripChars(s, chars) ==
    IF s # <<>> /\ s[Len(s)] \in chars
    THEN RStripChars(SubSeq(s, 1, Len(s) - 1), chars) ELSE s

\* s.strip(chars)
StripChars(s, chars) == RStripChars(LStripChars(s, chars), chars)

\* s.strip()
Strip(s) == StripChars(s, Whitespace)

RECURSIVE Join(_, _)
Join(list, sep) ==
    IF list = <<>> THEN <<>>
    ELSE IF Len(list) = 1 THEN list[1]
    ELSE list[1] \o <<sep>> \o Join(Tail(list), sep)

InSeq(x, list) == \E i \in 1..Len(list) : list[i] = x

\* Mutant: nothing is removed.
FilterOut_None(list, removed) == list

RECURSIVE FilterOut(_, _)
\* [ext for ext in list if ext not in removed]
FilterOut(list, removed) ==
    IF list = <<>> THEN <<>>
    ELSE IF Head(list) \in removed THEN FilterOut(Tail(list), removed)
    ELSE <<Head(list)>> \o FilterOut(Tail(list), removed)

(***************************************************************************)
(* get_soc_extensions                                                      *)
(***************************************************************************)
V4l2loopbackDkms ==
    <<"v","4","l","2","l","o","o","p","b","a","c","k","-","d","k","m","s">>

MesaVpu == <<"m","e","s","a","-","v","p","u">>

\* Mutant: the two names are added for every board with video.
AutoExtensions_WithVideo(e) ==
    IF HasVideo(e) THEN <<V4l2loopbackDkms, MesaVpu>> ELSE <<>>

\* The extensions added automatically, for fast boards with video only.
AutoExtensions(e) ==
    IF is_fast_hardware(e) = "True" THEN <<V4l2loopbackDkms, MesaVpu>> ELSE <<>>

\* Mutant: the wildcard entry is tried before the exact entry.
Lookup_WildcardFirst(map, board, branch, none) ==
    IF <<board, Empty>> \in DOMAIN map THEN map[<<board, Empty>>]
    ELSE IF <<board, branch>> \in DOMAIN map THEN map[<<board, branch>>]
    ELSE none

\* The two-level lookup of both maps: the exact (board, branch) entry, else
\* the wildcard (board, '') entry, else nothing.  none is the value standing
\* for Python's None (falsy, like the empty text and the empty set).
Lookup(map, board, branch, none) ==
    IF <<board, branch>> \in DOMAIN map THEN map[<<board, branch>>]
    ELSE IF <<board, Empty>> \in DOMAIN map THEN map[<<board, Empty>>]
    ELSE none

RECURSIVE MergeManual(_, _)
\* for ext in manual_ext.split(','): append ext.strip() unless empty or present
MergeManual(exts, pieces) ==
    IF pieces = <<>> THEN exts
    ELSE LET ext == Strip(Head(pieces))
         IN  MergeManual(IF ext # <<>> /\ ~InSeq(ext, exts)
                         THEN Append(exts, ext) ELSE exts,
                         Tail(pieces))

\* get_soc_extensions before the final join: the list of names.
SocExtensionList(e, add_map, remove_map) ==
    LET board == e.in.inventory.BOARD
        branch == e.in.vars.BRANCH
        auto == AutoExtensions(e)
        manual_ext == IF DOMAIN add_map # {}
                      THEN Lookup(add_map, board, branch, <<>>) ELSE <<>>
        merged == IF manual_ext # <<>>
                  THEN MergeManual(auto, Split(manual_ext, ","))
                  ELSE auto
        remove_ext == IF DOMAIN remove_map # {}
                      THEN Lookup(remove_map, board, branch, {}) ELSE {}
    IN  IF remove_ext # {} THEN FilterOut(merged, remove_ext) ELSE merged

get_soc_extensions(e, add_map, remove_map) ==
    Join(SocExtensionList(e, add_map, remove_map), ",")

(***************************************************************************)
(* load_extensions_map and load_remove_extensions_map.  A file is          *)
(* [exists, lines]; a line is a text without its line terminator.          *)
(***************************************************************************)
EmptyMap == [k \in {} |-> Empty]

KeyEnable == <<"E","N","A","B","L","E","_","E","X","T","E","N","S","I","O","N","S","=">>

KeyRemove == <<"R","E","M","O","V","E","_","E","X","T","E","N","S","I","O","N","S","=">>

\* The dict after map[k] = value for every k in keys.
MapPut(map, keys, value) ==
    [k \in (DOMAIN map) \cup keys |-> IF k \in keys THEN value ELSE map[k]]

RECURSIVE NonEmpty(_)
\* [b for b in list if b]
NonEmpty(list) ==
    IF list = <<>> THEN <<>>
    ELSE IF Head(list) = <<>> THEN NonEmpty(Tail(list))
    ELSE <<Head(list)>> \o NonEmpty(Tail(list))

\* Whether the loader looks at the line at all: not blank, not a comment, and
\* holding '::' directly before the key.
LineAccepted(line, key) ==
    /\ line # <<>>
    /\ Head(line) # "#"
    /\ Contains(line, <<":", ":">> \o key)
    /\ Len(SplitText(line, key)) = 2

\* The board of an accepted line.
LineBoard(line, key) ==
    LET board_part == RStripChars(SplitText(line, key)[1], {":"})
    IN  IF Contains(board_part, <<":">>) THEN Split(board_part, ":")[1]
        ELSE board_part

\* The non-empty branches of an accepted line.
LineBranches(line, key) ==
    LET board_part == RStripChars(SplitText(line, key)[1], {":"})
    IN  IF Contains(board_part, <<":">>)
        THEN NonEmpty(Tail(Split(board_part, ":")))
        ELSE <<>>

\* The value text of an accepted line, quotes stripped.
LineValue(line, key) == StripChars(SplitText(line, key)[2], {"\""})

\* The map keys an accepted line sets: one per branch, or the wildcard.
LineKeys(line, key) ==
    LET board == LineBoard(line, key)
        branches == LineBranches(line, key)
    IN  IF branches # <<>>
        THEN {<<board, branches[i]>> : i \in 1..Len(branches)}
        ELSE {<<board, Empty>>}

\* {ext.strip() for ext in extensions.split(',') if ext.strip()}
ExtSet(text) ==
    LET pieces == Split(text, ",")
    IN  {Strip(pieces[i]) : i \in 1..Len(pieces)} \ {Empty}

RECURSIVE LoadLines(_, _, _)
\* The loop over the lines of an add map (key = KeyEnable, values are texts)
\* or a remove map (key = KeyRemove, values are sets of names).
LoadLines(lines, key, map) ==
    IF lines = <<>> THEN map
    ELSE LET line == Strip(Head(lines))
             value == IF key = KeyRemove THEN ExtSet(LineValue(line, key))
                      ELSE LineValue(line, key)
         IN  LoadLines(Tail(lines), key,
                       IF LineAccepted(line, key)
                       THEN MapPut(map, LineKeys(line, key), value)
                       ELSE map)

load_extensions_map(file) ==
    IF ~file.exists THEN EmptyMap ELSE LoadLines(file.lines, KeyEnable, EmptyMap)

load_remove_extensions_map(file) ==
    IF ~file.exists THEN EmptyMap ELSE LoadLines(file.lines, KeyRemove, EmptyMap)

\* Whether a statement of the try block raises on an accepted line.  The
\* block holds str.split, str.rstrip, str.strip, the indexing of a list that
\* str.split returned (never empty), a comprehension and dict stores under
\* tuples of str: none of them raises for a str.
TryRaises(line, key) == FALSE

\* The lines the except clause reports, in file order: the stripped line of
\* every line that reached the try block and made it raise.
ParseWarnings(file, key) ==
    IF ~file.exists THEN <<>>
    ELSE SelectSeq([i \in 1..Len(file.lines) |-> Strip(file.lines[i])],
                   LAMBDA line : /\ line # <<>>
                                 /\ Head(line) # "#"
                                 /\ Contains(line, <<":", ":">> \o key)
                                 /\ TryRaises(line, key))

(***************************************************************************)
(* Inventory records.                                                      *)
(***************************************************************************)
MkEntry(board, branch, level, arch, desktop, family, soc, video, topFamily, topSoc, outSoc, ktt) ==
    [in |-> [inventory |-> [BOARD |-> board,
                            BOARD_SUPPORT_LEVEL |-> level,
                            BOARDFAMILY |-> family,
                            BOOT_SOC |-> soc,
                            BOARD_HAS_VIDEO |-> video,
                            BOARD_TOP_LEVEL_VARS |->
                                [BOARDFAMILY |-> topFamily,
                                 BOOT_SOC |-> topSoc,
                                 KERNEL_TEST_TARGET |-> ktt]],
             vars |-> [BRANCH |-> branch, BUILD_DESKTOP |-> desktop]],
     out |-> [ARCH |-> arch, BOOT_SOC |-> outSoc]]

(***************************************************************************)
(* extract_boards_by_support_level                                         *)
(***************************************************************************)
SupportLevels == {"conf", "csc", "tvb", "wip"}

DefaultBranches == {Current, Vendor, Legacy, Edge}

\* [b.strip() for b in kernel_test_target.split(',') if b.strip()]
RECURSIVE StrippedNonEmpty(_)
StrippedNonEmpty(pieces) ==
    IF pieces = <<>> THEN <<>>
    ELSE IF Strip(Head(pieces)) = <<>> THEN StrippedNonEmpty(Tail(pieces))
    ELSE <<Strip(Head(pieces))>> \o StrippedNonEmpty(Tail(pieces))

AllowedBranches(kernel_test_target) ==
    StrippedNonEmpty(Split(kernel_test_target, ","))

KernelTestTarget(e) == e.in.inventory.BOARD_TOP_LEVEL_VARS.KERNEL_TEST_TARGET

\* Mutant: the blacklist is not consulted.
Relevant_IgnoreBlacklist(e, blacklist) ==
    /\ e.in.inventory.BOARD # Empty
    /\ e.in.vars.BRANCH # Empty
    /\ e.in.inventory.BOARD_SUPPORT_LEVEL \in SupportLevels

\* The first-pass filter: board and branch present, board not blacklisted,
\* support level recognised.
Relevant(e, blacklist) ==
    /\ e.in.inventory.BOARD # Empty
    /\ e.in.vars.BRANCH # Empty
    /\ e.in.inventory.BOARD \notin blacklist
    /\ e.in.inventory.BOARD_SUPPORT_LEVEL \in SupportLevels

\* The board_data value created for the first record of a (board, branch).
NewBoardData(e, add_map, remove_map) ==
    [board |-> e.in.inventory.BOARD,
     branch |-> e.in.vars.BRANCH,
     support_level |-> e.in.inventory.BOARD_SUPPORT_LEVEL,
     arch |-> e.out.ARCH,
     entry |-> e,
     has_desktop_variant |-> (e.in.vars.BUILD_DESKTOP = "yes"),
     extensions |-> get_soc_extensions(e, add_map, remove_map),
     is_fast |-> is_fast_hardware(e)]

\* Mutant: every record is taken for the first of its (board, branch).
KeyIndex_AlwaysNew(board_data, board, branch) == 0

\* The position of (board, branch) in board_data, 0 when it is not a key.
KeyIndex(board_data, board, branch) ==
    IF \E i \in 1..Len(board_data) :
           board_data[i].board = board /\ board_data[i].branch = branch
    THEN CHOOSE i \in 1..Len(board_data) :
           board_data[i].board = board /\ board_data[i].branch = branch
    ELSE 0

RECURSIVE CollectBoardData_NoUpgrade(_, _, _, _, _)
\* Mutant: later records of a (board, branch) never set has_desktop_variant.
CollectBoardData_NoUpgrade(records, add_map, remove_map, blacklist, board_data) ==
    IF records = <<>> THEN board_data
    ELSE LET e == Head(records)
             i == KeyIndex(board_data, e.in.inventory.BOARD, e.in.vars.BRANCH)
             next == IF Relevant(e, blacklist) /\ i = 0
                     THEN Append(board_data, NewBoardData(e, add_map, remove_map))
                     ELSE board_data
         IN  CollectBoardData_NoUpgrade(Tail(records), add_map, remove_map, blacklist, next)

RECURSIVE CollectBoardData(_, _, _, _, _)
\* The first pass: board_data, a dict in insertion order, as the sequence of
\* its values.
CollectBoardData(records, add_map, remove_map, blacklist, board_data) ==
    IF records = <<>> THEN board_data
    ELSE LET e == Head(records)
             i == KeyIndex(board_data, e.in.inventory.BOARD, e.in.vars.BRANCH)
             next == IF ~Relevant(e, blacklist) THEN board_data
                     ELSE IF i = 0
                          THEN Append(board_data, NewBoardData(e, add_map, remove_map))
                     ELSE IF e.in.vars.BUILD_DESKTOP = "yes"
                          THEN [board_data EXCEPT ![i].has_desktop_variant = TRUE]
                     ELSE board_data
         IN  CollectBoardData(Tail(records), add_map, remove_map, blacklist, next)

\* The second-pass filter: the branch is in the board's KERNEL_TEST_TARGET
\* list when one is set, else one of current, vendor, legacy, edge.
BranchKept(data) ==
    LET kernel_test_target == KernelTestTarget(data.entry)
    IN  IF kernel_test_target # Empty
        THEN InSeq(data.branch, AllowedBranches(kernel_test_target))
        ELSE data.branch \in DefaultBranches

\* Mutant: the support level is not looked at.
SelectLevels_AnyLevel(board_data, levels) ==
    SelectSeq(board_data, LAMBDA data : BranchKept(data))

RECURSIVE SelectLevels(_, _)
\* The second pass for one group: the kept values whose level is in levels.
SelectLevels(board_data, levels) ==
    IF board_data = <<>> THEN <<>>
    ELSE IF BranchKept(Head(board_data)) /\ Head(board_data).support_level \in levels
         THEN <<Head(board_data)>> \o SelectLevels(Tail(board_data), levels)
         ELSE SelectLevels(Tail(board_data), levels)

\* extract_boards_by_support_level: [conf_wip_boards, csc_tvb_boards]
extract_boards_by_support_level(records, add_map, remove_map, blacklist) ==
    LET board_data == CollectBoardData(records, add_map, remove_map, blacklist, <<>>)
    IN  [conf_wip_boards |-> SelectLevels(board_data, {"conf", "wip"}),
         csc_tvb_boards |-> SelectLevels(board_data, {"csc", "tvb"})]

(***************************************************************************)
(* select_one_branch_per_board                                             *)
(***************************************************************************)
\* Mutant: edge is preferred to current.
DefaultBranchPriority_EdgeFirst ==
    [b \in DefaultBranches |-> IF b = Edge THEN 1 ELSE IF b = Current THEN 3 ELSE 2]

\* default_branch_priority
DefaultBranchPriority ==
    [b \in DefaultBranches |-> IF b = Current THEN 1 ELSE IF b = Edge THEN 3 ELSE 2]

\* {branch: idx for idx, branch in enumerate(allowed_branches, 1)}: a branch
\* listed twice keeps its last index.
EnumeratePriority(allowed_branches) ==
    [b \in {allowed_branches[i] : i \in 1..Len(allowed_branches)} |->
        CHOOSE i \in 1..Len(allowed_branches) :
            /\ allowed_branches[i] = b
            /\ \A j \in (i + 1)..Len(allowed_branches) : allowed_branches[j] # b]

\* The priority dict that applies while board_data is being looked at.
BranchPriority(board_data) ==
    LET kernel_test_target == KernelTestTarget(board_data.entry)
    IN  IF kernel_test_target # Empty
        THEN EnumeratePriority(AllowedBranches(kernel_test_target))
        ELSE DefaultBranchPriority

\* The position of board in seen_boards, 0 when it is not a key.
SeenIndex(seen_boards, board) ==
    IF \E i \in 1..Len(seen_boards) : seen_boards[i].board = board
    THEN CHOOSE i \in 1..Len(seen_boards) : seen_boards[i].board = board
    ELSE 0

RECURSIVE SelectLoop(_, _)
\* The loop of select_one_branch_per_board over the remaining boards, with
\* seen_boards (a dict in insertion order) as the sequence of its values.
\* The result is [raised, boards]: branch_priority[seen_boards[board]['branch']]
\* raises KeyError when the stored branch is no key of this entry's priorities.
SelectLoop(boards, seen_boards) ==
    IF boards = <<>> THEN [raised |-> FALSE, boards |-> seen_boards]
    ELSE LET board_data == Head(boards)
             branch_priority == BranchPriority(board_data)
             i == SeenIndex(seen_boards, board_data.board)
         IN  IF board_data.branch \notin DOMAIN branch_priority
             THEN SelectLoop(Tail(boards), seen_boards)
             ELSE IF i = 0
             THEN SelectLoop(Tail(boards), Append(seen_boards, board_data))
             ELSE IF seen_boards[i].branch \notin DOMAIN branch_priority
             THEN [raised |-> TRUE, boards |-> <<>>]
             ELSE IF branch_priority[board_data.branch]
                        < branch_priority[seen_boards[i].branch]
             THEN SelectLoop(Tail(boards), [seen_boards EXCEPT ![i] = board_data])
             ELSE SelectLoop(Tail(boards), seen_boards)

select_one_branch_per_board(boards) == SelectLoop(boards, <<>>)

(***************************************************************************)
(* Text order and case: Python compares str by code point, and             *)
(* str.capitalize() upper-cases the first character and lower-cases the    *)
(* rest.                                                                   *)
(***************************************************************************)
Lowercase == <<"a","b","c","d","e","f","g","h","i","j","k","l","m","n","o","p","q","r","s","t","u","v","w","x","y","z">>

Uppercase == <<"A","B","C","D","E","F","G","H","I","J","K","L","M","N","O","P","Q","R","S","T","U","V","W","X","Y","Z">>

\* The characters of the model's board identifiers, in code-point order.
CodeOrder == <<"-","0","1","2","3","4","5","6","7","8","9","A","B","C","D","E","F","G","H","I","J","K","L","M","N","O","P","Q","R","S","T","U","V","W","X","Y","Z","_","a","b","c","d","e","f","g","h","i","j","k","l","m","n","o","p","q","r","s","t","u","v","w","x","y","z">>

Ord(c) == CHOOSE i \in 1..Len(CodeOrder) : CodeOrder[i] = c

RECURSIVE TextLess(_, _)
\* a < b for two texts
TextLess(a, b) ==
    IF b = <<>> THEN FALSE
    ELSE IF a = <<>> THEN TRUE
    ELSE IF Head(a) = Head(b) THEN TextLess(Tail(a), Tail(b))
    ELSE Ord(Head(a)) < Ord(Head(b))

Upper(c) ==
    IF \E i \in 1..Len(Lowercase) : Lowercase[i] = c
    THEN Uppercase[CHOOSE i \in 1..Len(Lowercase) : Lowercase[i] = c] ELSE c

Lower(c) ==
    IF \E i \in 1..Len(Uppercase) : Uppercase[i] = c
    THEN Lowercase[CHOOSE i \in 1..Len(Uppercase) : Uppercase[i] = c] ELSE c

capitalize_board_name(board) ==
    [i \in 1..Len(board) |-> IF i = 1 THEN Upper(board[i]) ELSE Lower(board[i])]

RECURSIVE InsertByBoard(_, _)
\* x placed after every element whose board is not greater (a stable sort)
InsertByBoard(sorted, x) ==
    IF sorted = <<>> THEN <<x>>
    ELSE IF TextLess(x.board, Head(sorted).board) THEN <<x>> \o sorted
    ELSE <<Head(sorted)>> \o InsertByBoard(Tail(sorted), x)

RECURSIVE SortedFrom(_, _)
SortedFrom(list, sorted) ==
    IF list = <<>> THEN sorted
    ELSE SortedFrom(Tail(list), InsertByBoard(sorted, Head(list)))

\* Mutant: the list is left in input order.
SortedByBoard_InputOrder(list) == list

\* sorted(list, key=lambda x: x['board'])
SortedByBoard(list) == SortedFrom(list, <<>>)

(***************************************************************************)
(* The manifests.  A document is the sequence of its blocks after the      *)
(* fixed header: a named list with its items, a target with its vars and   *)
(* the lists its items reference, or the manual text with its lines.       *)
(***************************************************************************)
NoVars == [RELEASE |-> "", BUILD_MINIMAL |-> "", BUILD_DESKTOP |-> "", DESKTOP_ENVIRONMENT |-> "", ENABLE_EXTENSIONS |-> ""]

\* One line of a list: BOARD, BRANCH and, when included and not empty,
\* ENABLE_EXTENSIONS.
format_board_item(board_data, include_extensions) ==
    [BOARD |-> board_data.board,
     BRANCH |-> board_data.branch,
     ENABLE_EXTENSIONS |-> IF include_extensions /\ board_data.extensions # Empty
                           THEN board_data.extensions ELSE Empty]

\* A named list: its anchor and one item per board, sorted by board.
ListBlock(name, boards, include_extensions) ==
    LET sorted == SortedByBoard(boards)
    IN  [kind |-> "list", name |-> name, vars |-> NoVars,
         items |-> [i \in 1..Len(sorted) |-> format_board_item(sorted[i], include_extensions)],
         refs |-> <<>>, lines |-> <<>>]

\* Mutant: a list other than the unconditional one is never written.
OptList_Never(name, boards) == <<>>

\* if boards: the named list
OptList(name, boards) ==
    IF boards # <<>> THEN <<ListBlock(name, boards, TRUE)>> ELSE <<>>

\* Mutant: the reference is never written.
OptRef_Never(name, boards) == <<>>

\* if boards: '      - *name'
OptRef(name, boards) == IF boards # <<>> THEN <<name>> ELSE <<>>

\* Mutant: every target is a desktop target.
TargetBlock_Desktop(name, release, minimal, desktop, environment, enable, refs) ==
    [kind |-> "target", name |-> name,
     vars |-> [RELEASE |-> release, BUILD_MINIMAL |-> minimal, BUILD_DESKTOP |-> "yes",
               DESKTOP_ENVIRONMENT |-> environment, ENABLE_EXTENSIONS |-> enable],
     items |-> <<>>, refs |-> refs, lines |-> <<>>]

TargetBlock(name, release, minimal, desktop, environment, enable, refs) ==
    [kind |-> "target", name |-> name,
     vars |-> [RELEASE |-> release, BUILD_MINIMAL |-> minimal, BUILD_DESKTOP |-> desktop,
               DESKTOP_ENVIRONMENT |-> environment, ENABLE_EXTENSIONS |-> enable],
     items |-> <<>>, refs |-> refs, lines |-> <<>>]

\* if cond: the target
OptTarget(cond, target) == IF cond THEN <<target>> ELSE <<>>

\* Mutant: the manual lines are not indented.
ManualBlock_Unindented(manual_content) ==
    IF manual_content = Empty THEN <<>>
    ELSE <<[kind |-> "manual", name |-> "", vars |-> NoVars, items |-> <<>>,
            refs |-> <<>>, lines |-> Split(manual_content, "\n")]>>

\* if manual_content: its lines, each non-blank line indented by two spaces
ManualBlock(manual_content) ==
    LET pieces == Split(manual_content, "\n")
    IN  IF manual_content = Empty THEN <<>>
        ELSE <<[kind |-> "manual", name |-> "", vars |-> NoVars, items |-> <<>>,
                refs |-> <<>>,
                lines |-> [i \in 1..Len(pieces) |->
                              IF Strip(pieces[i]) # <<>>
                              THEN <<" ", " ">> \o pieces[i] ELSE pieces[i]]]>>

\* [b for b in boards if b['branch'] == branch and b['is_fast'] is category]
Bucket(boards, branch, category) ==
    SelectSeq(boards, LAMBDA b : b.branch = branch /\ b.is_fast = category)

\* Mutant: edge entries are kept whether or not the board has a current entry.
EdgeBucket_WithCurrent(boards, category, current_boards) == Bucket(boards, Edge, category)

\* [b for b in boards if b['branch'] == 'edge' and b['is_fast'] is category
\*    and b['board'] not in current_boards]
EdgeBucket(boards, category, current_boards) ==
    SelectSeq(boards, LAMBDA b : b.branch = Edge /\ b.is_fast = category
                                    /\ b.board \notin current_boards)

\* Mutant: the category is not looked at.
OfCategory_Any(boards, category) == boards

\* [b for b in boards if b['is_fast'] is category]
OfCategory(boards, category) ==
    SelectSeq(boards, LAMBDA b : b.is_fast = category)

Document(blocks) == [raised |-> FALSE, content |-> blocks]

Raised == [raised |-> TRUE, content |-> <<>>]

(***************************************************************************)
(* generate_apps_yaml                                                      *)
(***************************************************************************)
AppsExcludedArchs == {"armhf", "riscv64", "loongarch64"}

generate_apps_yaml(conf_wip_boards, manual_content) ==
    LET selected == select_one_branch_per_board(conf_wip_boards)
        boards == SelectSeq(selected.boards, LAMBDA b : b.arch \notin AppsExcludedArchs)
        refs == <<"apps-builds">>
    IN  IF selected.raised THEN Raised
        ELSE Document(
            <<ListBlock("apps-builds", boards, FALSE),
              TargetBlock("apps-ha", "trixie", "no", "no", "", "ha", refs),
              TargetBlock("apps-omv", "trixie", "yes", "no", "", "omv", refs),
              TargetBlock("apps-openhab", "trixie", "no", "no", "", "openhab", refs),
              TargetBlock("apps-kali", "sid", "no", "no", "", "kali", refs)>>
            \o ManualBlock(manual_content))

(***************************************************************************)
(* generate_stable_yaml                                                    *)
(***************************************************************************)
generate_stable_yaml(conf_wip_boards, manual_content) ==
    LET current_fast == Bucket(conf_wip_boards, Current, "True")
        current_slow == Bucket(conf_wip_boards, Current, "False")
        current_riscv64 == Bucket(conf_wip_boards, Current, "riscv64")
        current_loongarch == Bucket(conf_wip_boards, Current, "loongarch")
        current_headless == Bucket(conf_wip_boards, Current, "None")
        vendor_fast == Bucket(conf_wip_boards, Vendor, "True")
        vendor_slow == Bucket(conf_wip_boards, Vendor, "False")
        vendor_riscv64 == Bucket(conf_wip_boards, Vendor, "riscv64")
        vendor_loongarch == Bucket(conf_wip_boards, Vendor, "loongarch")
        vendor_headless == Bucket(conf_wip_boards, Vendor, "None")
        legacy_fast == Bucket(conf_wip_boards, Legacy, "True")
        legacy_slow == Bucket(conf_wip_boards, Legacy, "False")
        legacy_riscv64 == Bucket(conf_wip_boards, Legacy, "riscv64")
        legacy_loongarch == Bucket(conf_wip_boards, Legacy, "loongarch")
        legacy_headless == Bucket(conf_wip_boards, Legacy, "None")
        lists ==
            <<ListBlock("stable-current-fast-hdmi", current_fast, TRUE)>>
            \o OptList("stable-current-slow-hdmi", current_slow)
            \o OptList("stable-current-riscv64", current_riscv64)
            \o OptList("stable-current-loongarch", current_loongarch)
            \o OptList("stable-current-headless", current_headless)
            \o OptList("stable-vendor-fast-hdmi", vendor_fast)
            \o OptList("stable-vendor-slow-hdmi", vendor_slow)
            \o OptList("stable-vendor-riscv64", vendor_riscv64)
            \o OptList("stable-vendor-loongarch", vendor_loongarch)
            \o OptList("stable-vendor-headless", vendor_headless)
            \o OptList("stable-legacy-fast-hdmi", legacy_fast)
            \o OptList("stable-legacy-slow-hdmi", legacy_slow)
            \o OptList("stable-legacy-riscv64", legacy_riscv64)
            \o OptList("stable-legacy-loongarch", legacy_loongarch)
            \o OptList("stable-legacy-headless", legacy_headless)
        all_refs ==
            <<"stable-current-fast-hdmi">>
            \o OptRef("stable-current-slow-hdmi", current_slow)
            \o OptRef("stable-current-riscv64", current_riscv64)
            \o OptRef("stable-current-loongarch", current_loongarch)
            \o OptRef("stable-current-headless", current_headless)
            \o OptRef("stable-vendor-fast-hdmi", vendor_fast)
            \o OptRef("stable-vendor-slow-hdmi", vendor_slow)
            \o OptRef("stable-vendor-riscv64", vendor_riscv64)
            \o OptRef("stable-vendor-loongarch", vendor_loongarch)
            \o OptRef("stable-vendor-headless", vendor_headless)
            \o OptRef("stable-legacy-fast-hdmi", legacy_fast)
            \o OptRef("stable-legacy-slow-hdmi", legacy_slow)
            \o OptRef("stable-legacy-riscv64", legacy_riscv64)
            \o OptRef("stable-legacy-loongarch", legacy_loongarch)
            \o OptRef("stable-legacy-headless", legacy_headless)
        riscv64_refs == OptRef("stable-current-riscv64", current_riscv64)
                        \o OptRef("stable-vendor-riscv64", vendor_riscv64)
        loongarch_refs == OptRef("stable-current-loongarch", current_loongarch)
                          \o OptRef("stable-vendor-loongarch", vendor_loongarch)
    IN  Document(
            lists
            \o <<TargetBlock("minimal-stable-debian", "trixie", "yes", "no", "", "", all_refs),
                 TargetBlock("minimal-stable-ubuntu", "noble", "yes", "no", "", "", all_refs)>>
            \o OptTarget(current_slow # <<>>,
                   TargetBlock("desktop-stable-ubuntu-xfce", "noble", "no", "yes", "xfce", "",
                       <<"stable-current-slow-hdmi">>
                       \o OptRef("stable-vendor-slow-hdmi", vendor_slow)))
            \o OptTarget(current_fast # <<>> \/ legacy_fast # <<>>,
                   TargetBlock("desktop-stable-ubuntu-gnome", "noble", "no", "yes", "gnome", "",
                       OptRef("stable-current-fast-hdmi", current_fast)
                       \o OptRef("stable-vendor-fast-hdmi", vendor_fast)
                       \o OptRef("stable-legacy-fast-hdmi", legacy_fast)))
            \o OptTarget(current_fast # <<>>,
                   TargetBlock("desktop-stable-ubuntu-kde-neon", "noble", "no", "yes", "kde-neon", "",
                       <<"stable-current-fast-hdmi">>
                       \o OptRef("stable-vendor-fast-hdmi", vendor_fast)))
            \o OptTarget(legacy_fast # <<>>,
                   TargetBlock("desktop-stable-ubuntu-legacy-xfce", "noble", "no", "yes", "xfce", "",
                       <<"stable-legacy-fast-hdmi">>))
            \o OptTarget(current_riscv64 # <<>> \/ vendor_riscv64 # <<>>,
                   TargetBlock("desktop-stable-ubuntu-riscv64-xfce", "noble", "no", "yes", "xfce", "",
                       riscv64_refs))
            \o ManualBlock(manual_content)
            \o OptTarget(current_riscv64 # <<>> \/ vendor_riscv64 # <<>>,
                   TargetBlock("minimal-stable-ubuntu-riscv", "noble", "yes", "no", "", "",
                       riscv64_refs))
            \o OptTarget(current_loongarch # <<>> \/ vendor_loongarch # <<>>,
                   TargetBlock("minimal-stable-ubuntu-loongarch", "noble", "yes", "no", "", "",
                       loongarch_refs)))

(***************************************************************************)
(* generate_nightly_yaml                                                   *)
(***************************************************************************)
generate_nightly_yaml(conf_wip_boards, manual_content) ==
    LET selected == select_one_branch_per_board(conf_wip_boards)
        boards == selected.boards
        fast_boards == OfCategory(boards, "True")
        slow_boards == OfCategory(boards, "False")
        riscv64_boards == OfCategory(boards, "riscv64")
        loongarch_boards == OfCategory(boards, "loongarch")
        headless_boards == OfCategory(boards, "None")
    IN  IF selected.raised THEN Raised
        ELSE Document(
            <<ListBlock("nightly-fast-hdmi", fast_boards, TRUE)>>
            \o OptList("nightly-slow-hdmi", slow_boards)
            \o OptList("nightly-riscv64", riscv64_boards)
            \o OptList("nightly-loongarch", loongarch_boards)
            \o OptList("nightly-headless", headless_boards)
            \o <<TargetBlock("nightly-forky-all", "forky", "yes", "no", "", "",
                     <<"nightly-fast-hdmi">>
                     \o OptRef("nightly-slow-hdmi", slow_boards)
                     \o OptRef("nightly-headless", headless_boards)
                     \o OptRef("nightly-riscv64", riscv64_boards)
                     \o OptRef("nightly-loongarch", loongarch_boards)),
                 TargetBlock("nightly-noble-gnome", "noble", "no", "yes", "gnome", "",
                     <<"nightly-fast-hdmi">>)>>
            \o OptTarget(slow_boards # <<>>,
                   TargetBlock("nightly-noble-xfce", "noble", "no", "yes", "xfce", "",
                       <<"nightly-slow-hdmi">>))
            \o OptTarget(riscv64_boards # <<>>,
                   TargetBlock("nightly-noble-riscv64-xfce", "noble", "no", "yes", "xfce", "",
                       <<"nightly-riscv64">>))
            \o OptTarget(headless_boards # <<>>,
                   TargetBlock("nightly-noble-minimal", "noble", "yes", "no", "", "",
                       <<"nightly-headless">>))
            \o ManualBlock(manual_content))

(***************************************************************************)
(* generate_community_yaml.  The legacy_* lists are computed by the code   *)
(* and used by nothing after that.                                         *)
(***************************************************************************)
generate_community_yaml(csc_tvb_boards, manual_content) ==
    LET
        current_fast == Bucket(csc_tvb_boards, Current, "True")
        current_slow == Bucket(csc_tvb_boards, Current, "False")
        current_headless == Bucket(csc_tvb_boards, Current, "None")
        current_riscv64 == Bucket(csc_tvb_boards, Current, "riscv64")
        current_loongarch == Bucket(csc_tvb_boards, Current, "loongarch")
        vendor_fast == Bucket(csc_tvb_boards, Vendor, "True")
        vendor_slow == Bucket(csc_tvb_boards, Vendor, "False")
        vendor_headless == Bucket(csc_tvb_boards, Vendor, "None")
        vendor_riscv64 == Bucket(csc_tvb_boards, Vendor, "riscv64")
        vendor_loongarch == Bucket(csc_tvb_boards, Vendor, "loongarch")
        legacy_fast == Bucket(csc_tvb_boards, Legacy, "True")
        legacy_slow == Bucket(csc_tvb_boards, Legacy, "False")
        legacy_headless == Bucket(csc_tvb_boards, Legacy, "None")
        legacy_riscv64 == Bucket(csc_tvb_boards, Legacy, "riscv64")
        legacy_loongarch == Bucket(csc_tvb_boards, Legacy, "loongarch")
        current_boards == {csc_tvb_boards[i].board : i \in {j \in 1..Len(csc_tvb_boards) : csc_tvb_boards[j].branch = Current}}
        edge_fast == EdgeBucket(csc_tvb_boards, "True", current_boards)
        edge_slow == EdgeBucket(csc_tvb_boards, "False", current_boards)
        edge_headless == EdgeBucket(csc_tvb_boards, "None", current_boards)
        edge_riscv64 == EdgeBucket(csc_tvb_boards, "riscv64", current_boards)
        edge_loongarch == EdgeBucket(csc_tvb_boards, "loongarch", current_boards)
        lists ==
            <<ListBlock("community-current-fast-hdmi", current_fast, TRUE)>>
            \o OptList("community-current-slow-hdmi", current_slow)
            \o OptList("community-current-headless", current_headless)
            \o OptList("community-current-riscv64", current_riscv64)
            \o OptList("community-current-loongarch", current_loongarch)
            \o OptList("community-vendor-fast-hdmi", vendor_fast)
            \o OptList("community-vendor-slow-hdmi", vendor_slow)
            \o OptList("community-vendor-headless", vendor_headless)
            \o OptList("community-vendor-riscv64", vendor_riscv64)
            \o OptList("community-vendor-loongarch", vendor_loongarch)
            \o OptList("community-edge-fast-hdmi", edge_fast)
            \o OptList("community-edge-slow-hdmi", edge_slow)
            \o OptList("community-edge-headless", edge_headless)
            \o OptList("community-edge-riscv64", edge_riscv64)
            \o OptList("community-edge-loongarch", edge_loongarch)
        all_refs ==
            <<"community-current-fast-hdmi">>
            \o OptRef("community-current-slow-hdmi", current_slow)
            \o OptRef("community-current-headless", current_headless)
            \o OptRef("community-current-riscv64", current_riscv64)
            \o OptRef("community-current-loongarch", current_loongarch)
            \o OptRef("community-vendor-fast-hdmi", vendor_fast)
            \o OptRef("community-vendor-slow-hdmi", vendor_slow)
            \o OptRef("community-vendor-headless", vendor_headless)
            \o OptRef("community-vendor-riscv64", vendor_riscv64)
            \o OptRef("community-vendor-loongarch", vendor_loongarch)
            \o OptRef("community-edge-fast-hdmi", edge_fast)
            \o OptRef("community-edge-slow-hdmi", edge_slow)
            \o OptRef("community-edge-headless", edge_headless)
            \o OptRef("community-edge-riscv64", edge_riscv64)
            \o OptRef("community-edge-loongarch", edge_loongarch)
    IN  Document(
            lists
            \o <<TargetBlock("community-trixie-all", "trixie", "yes", "no", "", "", all_refs),
                 TargetBlock("community-noble-gnome", "noble", "no", "yes", "gnome", "",
                     <<"community-current-fast-hdmi">>
                     \o OptRef("community-vendor-fast-hdmi", vendor_fast)
                     \o OptRef("community-edge-fast-hdmi", edge_fast))>>
            \o OptTarget(current_fast # <<>> \/ vendor_fast # <<>> \/ edge_fast # <<>>,
                   TargetBlock("community-noble-kde-neon", "noble", "no", "yes", "kde-neon", "",
                       <<"community-current-fast-hdmi">>
                       \o OptRef("community-vendor-fast-hdmi", vendor_fast)
                       \o OptRef("community-edge-fast-hdmi", edge_fast)))
            \o OptTarget(current_slow # <<>> \/ vendor_slow # <<>> \/ edge_slow # <<>>,
                   TargetBlock("community-noble-xfce", "noble", "no", "yes", "xfce", "",
                       OptRef("community-current-slow-hdmi", current_slow)
                       \o OptRef("community-vendor-slow-hdmi", vendor_slow)
                       \o OptRef("community-edge-slow-hdmi", edge_slow)))
            \o OptTarget(current_riscv64 # <<>> \/ vendor_riscv64 # <<>> \/ edge_riscv64 # <<>>,
                   TargetBlock("community-noble-riscv64-xfce", "noble", "no", "yes", "xfce", "",
                       OptRef("community-current-riscv64", current_riscv64)
                       \o OptRef("community-vendor-riscv64", vendor_riscv64)
                       \o OptRef("community-edge-riscv64", edge_riscv64)))
            \o OptTarget(current_headless # <<>> \/ vendor_headless # <<>> \/ edge_headless # <<>>,
                   TargetBlock("community-noble-minimal", "noble", "yes", "no", "", "",
                       OptRef("community-current-headless", current_headless)
                       \o OptRef("community-vendor-headless", vendor_headless)
                       \o OptRef("community-edge-headless", edge_headless)))
            \o ManualBlock(manual_content))

(***************************************************************************)
(* generate_exposed_map.  A pattern line is kept as its variable parts:    *)
(* the directory prefix (empty in the second line of each pair), the       *)
(* optional community prefix, the capitalised board, release, branch,      *)
(* image type and file extension.                                          *)
(***************************************************************************)
ImageOutputOowow == <<"i","m","a","g","e","-","o","u","t","p","u","t","-","o","o","w","o","w">>

ArchiveDir == <<"/","a","r","c","h","i","v","e","/">>

WithBoardType(boards, board_type) ==
    [i \in 1..Len(boards) |->
        [board |-> boards[i].board, branch |-> boards[i].branch,
         support_level |-> boards[i].support_level, arch |-> boards[i].arch,
         entry |-> boards[i].entry,
         has_desktop_variant |-> boards[i].has_desktop_variant,
         extensions |-> boards[i].extensions, is_fast |-> boards[i].is_fast,
         board_type |-> board_type]]

Pattern(board_data, with_dir, release, image_type) ==
    [dir_prefix |-> IF with_dir THEN board_data.board \o ArchiveDir ELSE Empty,
     community_prefix |-> board_data.board_type = "community",
     board_pattern |-> capitalize_board_name(board_data.board),
     release |-> release,
     branch |-> board_data.branch,
     image_type |-> image_type,
     file_ext |-> IF Contains(board_data.extensions, ImageOutputOowow)
                  THEN ".oowow.img.xz" ELSE ".img.xz"]

PatternPair(board_data, release, image_type) ==
    <<Pattern(board_data, TRUE, release, image_type),
      Pattern(board_data, FALSE, release, image_type)>>

\* Mutant: only the trixie minimal pair is emitted.
BoardPatterns_MinimalOnly(board_data) == PatternPair(board_data, "trixie", "minimal")

\* The lines of one board: the trixie minimal pair, then the second pair.
BoardPatterns(board_data) ==
    PatternPair(board_data, "trixie", "minimal")
    \o IF board_data.is_fast = "loongarch" THEN <<>>
       ELSE IF board_data.is_fast = "riscv64"
       THEN PatternPair(board_data, "noble", "xfce_desktop")
       ELSE IF HasVideo(board_data.entry) /\ board_data.is_fast # "None"
       THEN IF board_data.is_fast = "True"
            THEN PatternPair(board_data, "noble", "gnome_desktop")
            ELSE PatternPair(board_data, "noble", "xfce_desktop")
       ELSE PatternPair(board_data, "noble", "minimal")

RECURSIVE AllPatterns(_)
AllPatterns(all_boards) ==
    IF all_boards = <<>> THEN <<>>
    ELSE BoardPatterns(Head(all_boards)) \o AllPatterns(Tail(all_boards))

generate_exposed_map(conf_wip_boards, csc_tvb_boards) ==
    LET stable_boards == WithBoardType(conf_wip_boards, "stable")
        community_boards == WithBoardType(csc_tvb_boards, "community")
        selected == select_one_branch_per_board(stable_boards \o community_boards)
        all_boards == SortedByBoard(selected.boards)
    IN  IF selected.raised THEN Raised
        ELSE Document(AllPatterns(all_boards))

(***************************************************************************)
(* Inputs of the classifier specification: every combination of the fields *)
(* is_fast_hardware reads.                                                 *)
(***************************************************************************)
BoardA == <<"a">>

BoardB == <<"b">>

ClassifierBoards == {BoardA, UefiLoong64}

ClassifierArchs == {"", "arm", "armhf", "arm64", "amd64", "riscv64", "loongarch64"}

ClassifierFamilies ==
    {Empty, Sun50iw \o <<"9">>, Sun55iw \o <<"3">>, <<"s","u","n","5","0","i">>,
     <<"s","u","n","8","i">>, MesonGxbb, MesonGxl, MesonG12a, MesonG12b, MesonSm1,
     <<"m","e","s","o","n","-","s","4","t","7">>, NuvotonMa35d1,
     <<"r","o","c","k","c","h","i","p","6","4">>}

ClassifierTopFamilies == {Empty, Sun50iw \o <<"6">>}

ClassifierSocs == {"", "rk3328", "rk3399", "rk3399pro", "rk3588"}

ClassifierTopSocs == {"", "rk3399"}

ClassifierOutSocs == {"", "rk3328"}

VideoValues == {"true", "false", "absent"}

Outputs == {"apps", "stable", "nightly", "community", "exposed"}

NoFile == [exists |-> FALSE, lines |-> <<>>]

NoManual == [exists |-> FALSE, content |-> Empty]

NotWritten == [present |-> FALSE, content |-> <<>>]

\* main() is not running.
MainIdle ==
    /\ extensions_map_file = NoFile
    /\ remove_extensions_map_file = NoFile
    /\ image_info_file = [given |-> FALSE, exists |-> FALSE, parses |-> FALSE, data |-> <<>>]
    /\ blacklist_files = [o \in Outputs |-> NoFile]
    /\ manual_files = [o \in Outputs |-> NoManual]
    /\ image_info = <<>>
    /\ pc = "idle"
    /\ written = [o \in Outputs |-> NotWritten]
    /\ conf_wip_boards_stable = <<>>
    /\ csc_tvb_boards_community = <<>>

NoGroups == [conf_wip_boards |-> <<>>, csc_tvb_boards |-> <<>>]

NotSelected == [raised |-> FALSE, boards |-> <<>>]

\* Neither the partitioner nor the selector is run on its own.
PartitionIdle ==
    /\ groups = NoGroups
    /\ select_input = <<>>
    /\ select_result = NotSelected
    /\ ppc = "idle"

\* No record is being classified on its own.
ClassifierIdle ==
    /\ entry = MkEntry(Empty, Empty, "", "", "no", Empty, "", "absent", Empty, "", "", Empty)
    /\ is_fast = "unset"
    /\ extensions = Empty
    /\ cpc = "idle"

InitClassify ==
    /\ entry \in {MkEntry(b, Current, "conf", a, "no", f, s, v, tf, ts, os, Empty) :
                     b \in ClassifierBoards, a \in ClassifierArchs,
                     f \in ClassifierFamilies, s \in ClassifierSocs,
                     v \in VideoValues, tf \in ClassifierTopFamilies,
                     ts \in ClassifierTopSocs, os \in ClassifierOutSocs}
    /\ is_fast = "unset"
    /\ extensions = Empty
    /\ cpc = "start"
    /\ extensions_map = EmptyMap
    /\ remove_extensions_map = EmptyMap
    /\ stderr = <<>>
    /\ MainIdle
    /\ PartitionIdle

\* One classification of the record, as extract_boards_by_support_level does
\* for the first record of a (board, branch) pair.
Classify ==
    /\ cpc = "start"
    /\ is_fast' = is_fast_hardware(entry)
    /\ extensions' = get_soc_extensions(entry, extensions_map, remove_extensions_map)
    /\ cpc' = "done"
    /\ UNCHANGED <<partitionVars, entry, sidecarVars, inputVars, mainVars>>

NextClassify == Classify

SpecClassify == InitClassify /\ [][NextClassify]_vars

(***************************************************************************)
(* Inputs of the extension specification: one record of each category on   *)
(* two branches, with add and remove maps holding (or not) an exact entry, *)
(* a wildcard entry and an entry of another board.                         *)
(***************************************************************************)
ExtX == <<"x">>

ExtY == <<"y">>

HardwareProfiles ==
    {<<"arm64", "true">>, <<"armhf", "true">>, <<"riscv64", "true">>,
     <<"loongarch64", "true">>, <<"arm64", "false">>}

AddValues ==
    {Empty, ExtX, <<"y", ",", "x">>, <<"x", ",", " ">> \o MesaVpu,
     <<",", "x", ",", ",", "x", " ">>}

RemoveValues == {{}, {ExtX}, {MesaVpu}, {ExtY, V4l2loopbackDkms}}

\* The maps with the given keys, each key present or not.
MapsOver(keys, values) ==
    UNION {[ks -> values] : ks \in SUBSET keys}

SidecarKeys == {<<BoardA, Current>>, <<BoardA, Empty>>}

InitExtensions ==
    /\ entry \in {MkEntry(BoardA, br, "conf", hw[1], "no", Empty, "", hw[2],
                           Empty, "", "", Empty) :
                     br \in {Current, Edge}, hw \in HardwareProfiles}
    /\ is_fast = "unset"
    /\ extensions = Empty
    /\ cpc = "start"
    /\ extensions_map \in MapsOver(SidecarKeys \cup {<<BoardB, Current>>}, AddValues)
    /\ remove_extensions_map \in MapsOver(SidecarKeys, RemoveValues)
    /\ stderr = <<>>
    /\ MainIdle
    /\ PartitionIdle

SpecExtensions == InitExtensions /\ [][NextClassify]_vars

(***************************************************************************)
(* main(): loading the two extension maps.                                 *)
(***************************************************************************)
LoadExtensionsMap ==
    /\ pc = "load_extensions"
    /\ extensions_map' = load_extensions_map(extensions_map_file)
    /\ stderr' = stderr \o ParseWarnings(extensions_map_file, KeyEnable)
    /\ pc' = "load_remove"
    /\ UNCHANGED <<partitionVars, classifierVars, inputVars, remove_extensions_map, image_info, written, keptVars>>

LoadRemoveExtensionsMap ==
    /\ pc = "load_remove"
    /\ remove_extensions_map' = load_remove_extensions_map(remove_extensions_map_file)
    /\ stderr' = stderr \o ParseWarnings(remove_extensions_map_file, KeyRemove)
    /\ pc' = "load_image_info"
    /\ UNCHANGED <<partitionVars, classifierVars, inputVars, extensions_map, image_info, written, keptVars>>

(***************************************************************************)
(* Inputs of the loader specification: map files of up to MaxMapLines      *)
(* lines.  MapLine builds BOARD:branch1:...:branchN, then `colons` colons, *)
(* then the key and the value.                                             *)
(***************************************************************************)
MaxMapLines == 2

RECURSIVE ColonJoined(_)
ColonJoined(branches) ==
    IF branches = <<>> THEN <<>>
    ELSE <<":">> \o Head(branches) \o ColonJoined(Tail(branches))

MapLine(board, branches, colons, key, value) ==
    board \o ColonJoined(branches) \o colons \o key \o value

QuotedX == <<"\"", "x", "\"">>

QuotedYX == <<"\"", "y", ",", " ", "x", "\"">>

LineBranchLists == {<<>>, <<Current>>, <<Current, Edge>>}

LineColons == {<<":">>, <<":", ":">>}

MapLinePool ==
    {MapLine(BoardA, brs, c, key, v) :
        brs \in LineBranchLists, c \in LineColons,
        key \in {KeyEnable, KeyRemove}, v \in {QuotedX, QuotedYX}}
    \cup {<<>>,
          <<"#">> \o MapLine(BoardA, <<>>, <<":", ":">>, KeyEnable, QuotedX),
          <<" ">> \o MapLine(BoardB, <<Edge>>, <<":", ":">>, KeyEnable, QuotedX) \o <<" ">>,
          <<" ">> \o MapLine(BoardB, <<>>, <<":", ":">>, KeyRemove, QuotedYX) \o <<" ">>,
          BoardA \o <<":">> \o Current,
          MapLine(BoardA, <<Empty, Edge>>, <<":", ":">>, KeyEnable, QuotedX),
          MapLine(BoardA, <<>>, <<":", ":">>, KeyEnable, QuotedX \o KeyEnable \o QuotedX)}

MapFiles ==
    {NoFile} \cup
    {[exists |-> TRUE, lines |-> ls] :
        ls \in UNION {[1..n -> MapLinePool] : n \in 0..MaxMapLines}}

InitLoad ==
    /\ ClassifierIdle
    /\ PartitionIdle
    /\ \/ extensions_map_file \in MapFiles /\ remove_extensions_map_file = NoFile
       \/ extensions_map_file = NoFile /\ remove_extensions_map_file \in MapFiles
    /\ extensions_map = EmptyMap
    /\ remove_extensions_map = EmptyMap
    /\ stderr = <<>>
    /\ image_info_file = [given |-> TRUE, exists |-> TRUE, parses |-> TRUE, data |-> <<>>]
    /\ blacklist_files = [o \in Outputs |-> NoFile]
    /\ manual_files = [o \in Outputs |-> NoManual]
    /\ image_info = <<>>
    /\ pc = "load_extensions"
    /\ written = [o \in Outputs |-> NotWritten]
    /\ conf_wip_boards_stable = <<>>
    /\ csc_tvb_boards_community = <<>>

NextLoad == LoadExtensionsMap \/ LoadRemoveExtensionsMap

SpecLoad == InitLoad /\ [][NextLoad]_vars

(***************************************************************************)
(* main: the per-output sidecar files and the five generation steps.       *)
(***************************************************************************)
RECURSIVE BlacklistFrom(_, _)
\* The loop of load_blacklist: stripped lines that are neither blank nor
\* comments.
BlacklistFrom(lines, blacklist) ==
    IF lines = <<>> THEN blacklist
    ELSE LET line == Strip(Head(lines))
         IN  IF line = <<>> \/ StartsWith(line, <<"#">>)
             THEN BlacklistFrom(Tail(lines), blacklist)
             ELSE BlacklistFrom(Tail(lines), blacklist \cup {line})

load_blacklist(file) ==
    IF ~file.exists THEN {} ELSE BlacklistFrom(file.lines, {})

load_manual_overrides(file) ==
    IF ~file.exists THEN Empty ELSE file.content

\* extract_boards_by_support_level as main calls it for one output.
ExtractFor(output, records) ==
    extract_boards_by_support_level(records, extensions_map, remove_extensions_map,
                                    load_blacklist(blacklist_files[output]))

\* What main computes for each output from the inventory records.
AppsYaml(records) ==
    generate_apps_yaml(ExtractFor("apps", records).conf_wip_boards,
                       load_manual_overrides(manual_files["apps"]))

StableYaml(records) ==
    generate_stable_yaml(ExtractFor("stable", records).conf_wip_boards,
                         load_manual_overrides(manual_files["stable"]))

NightlyYaml(records) ==
    generate_nightly_yaml(ExtractFor("nightly", records).conf_wip_boards,
                          load_manual_overrides(manual_files["nightly"]))

CommunityYaml(records) ==
    generate_community_yaml(ExtractFor("community", records).csc_tvb_boards,
                            load_manual_overrides(manual_files["community"]))

ExposedMap(records) ==
    generate_exposed_map(ExtractFor("stable", records).conf_wip_boards,
                         ExtractFor("community", records).csc_tvb_boards)

\* path.write_text(content), or the exception that ends the run before it.
WriteOrRaise(output, result, next_pc) ==
    IF result.raised
    THEN pc' = "raised" /\ UNCHANGED written
    ELSE /\ written' = [written EXCEPT ![output] = [present |-> TRUE, content |-> result.content]]
         /\ pc' = next_pc

\* The argument and existence checks: sys.exit(1) before anything is read.
CheckInput ==
    /\ pc = "start"
    /\ pc' = IF ~image_info_file.given \/ ~image_info_file.exists
             THEN "exit1" ELSE "load_extensions"
    /\ UNCHANGED <<partitionVars, classifierVars, sidecarVars, inputVars, image_info, written, keptVars>>

\* json.load raises on a file that is not JSON.
LoadImageInfo ==
    /\ pc = "load_image_info"
    /\ IF image_info_file.parses
       THEN image_info' = image_info_file.data /\ pc' = "apps"
       ELSE pc' = "raised" /\ UNCHANGED image_info
    /\ UNCHANGED <<partitionVars, classifierVars, sidecarVars, inputVars, written, keptVars>>

GenerateApps ==
    /\ pc = "apps"
    /\ WriteOrRaise("apps", AppsYaml(image_info), "stable")
    /\ UNCHANGED <<partitionVars, classifierVars, sidecarVars, inputVars, image_info, keptVars>>

GenerateStable ==
    /\ pc = "stable"
    /\ conf_wip_boards_stable' = ExtractFor("stable", image_info).conf_wip_boards
    /\ WriteOrRaise("stable", StableYaml(image_info), "nightly")
    /\ UNCHANGED <<partitionVars, classifierVars, sidecarVars, inputVars, image_info, csc_tvb_boards_community>>

GenerateNightly ==
    /\ pc = "nightly"
    /\ WriteOrRaise("nightly", NightlyYaml(image_info), "community")
    /\ UNCHANGED <<partitionVars, classifierVars, sidecarVars, inputVars, image_info, keptVars>>

GenerateCommunity ==
    /\ pc = "community"
    /\ csc_tvb_boards_community' = ExtractFor("community", image_info).csc_tvb_boards
    /\ WriteOrRaise("community", CommunityYaml(image_info), "exposed")
    /\ UNCHANGED <<partitionVars, classifierVars, sidecarVars, inputVars, image_info, conf_wip_boards_stable>>

GenerateExposed ==
    /\ pc = "exposed"
    /\ WriteOrRaise("exposed",
                    generate_exposed_map(conf_wip_boards_stable, csc_tvb_boards_community),
                    "done")
    /\ UNCHANGED <<partitionVars, classifierVars, sidecarVars, inputVars, image_info, keptVars>>

Next ==
    \/ CheckInput
    \/ LoadExtensionsMap
    \/ LoadRemoveExtensionsMap
    \/ LoadImageInfo
    \/ GenerateApps
    \/ GenerateStable
    \/ GenerateNightly
    \/ GenerateCommunity
    \/ GenerateExposed

(***************************************************************************)
(* Inputs of the pipeline specification: inventories of up to MaxEntries   *)
(* records drawn from RecordPool, and a few sidecar setups.                *)
(***************************************************************************)
MaxEntries == 2

BoardBX == <<"b", "X">>

Dev == <<"d", "e", "v">>

KttCurrentEdge == Current \o <<",", " ">> \o Edge

\* A record of a 64-bit board with video (fast), without the optional fields.
FastEntry(board, branch, level, ktt) ==
    MkEntry(board, branch, level, "arm64", "no", Empty, "", "true", Empty, "", "", ktt)

\* A record of a 32-bit board with video (slow).
SlowEntry(board, branch, level, desktop) ==
    MkEntry(board, branch, level, "armhf", desktop, Empty, "", "true", Empty, "", "", Empty)

\* A record of a board without video (headless).
HeadlessEntry(board, branch, level) ==
    MkEntry(board, branch, level, "arm64", "no", Empty, "", "absent", Empty, "", "", Empty)

RecordPool ==
    {FastEntry(BoardA, Current, "conf", Empty),
     FastEntry(BoardA, Vendor, "conf", Empty),
     FastEntry(BoardA, Legacy, "conf", Empty),
     FastEntry(BoardA, Edge, "conf", Edge),
     FastEntry(BoardA, Edge, "wip", KttCurrentEdge),
     SlowEntry(BoardA, Current, "conf", "yes"),
     FastEntry(BoardA, Dev, "conf", Empty),
     FastEntry(BoardA, Current, "eos", Empty),
     FastEntry(Empty, Current, "conf", Empty),
     FastEntry(BoardB, Current, "csc", Empty),
     FastEntry(BoardB, Edge, "csc", Edge),
     FastEntry(BoardB, Edge, "csc", Empty),
     SlowEntry(BoardB, Legacy, "csc", "no"),
     HeadlessEntry(BoardB, Vendor, "tvb"),
     HeadlessEntry(BoardBX, Current, "conf"),
     MkEntry(BoardB, Current, "conf", "riscv64", "no", Empty, "", "true", Empty, "", "", Empty),
     MkEntry(UefiLoong64, Current, "conf", "loongarch64", "no", Empty, "", "true", Empty, "", "", Empty)}

Inventories == UNION {[1..n -> RecordPool] : n \in 0..MaxEntries}

Oowow == <<"a", ":", ":">> \o KeyEnable \o <<"\"">> \o ImageOutputOowow \o <<"\"">>

RemoveMesa == <<"a", ":", ":">> \o KeyRemove \o <<"\"">> \o MesaVpu \o <<"\"">>

ManualText == <<"x", ":", "\n", " ", "\n", "y">>

\* The sidecar files of a run: none, or maps for board a, a blacklist for
\* the apps manifest and manual text for the standard-support manifest.
SidecarSetups ==
    {[add |-> NoFile, remove |-> NoFile, apps_blacklist |-> NoFile, stable_manual |-> NoManual],
     [add |-> [exists |-> TRUE, lines |-> <<Oowow>>],
      remove |-> [exists |-> TRUE, lines |-> <<RemoveMesa>>],
      apps_blacklist |-> [exists |-> TRUE, lines |-> <<<<"#", " ", "x">>, <<" ", "a", " ">>>>],
      stable_manual |-> [exists |-> TRUE, content |-> ManualText]]}

InventoryFiles ==
    {[given |-> FALSE, exists |-> FALSE, parses |-> FALSE, data |-> <<>>],
     [given |-> TRUE, exists |-> FALSE, parses |-> FALSE, data |-> <<>>],
     [given |-> TRUE, exists |-> TRUE, parses |-> FALSE, data |-> <<>>]}
    \cup {[given |-> TRUE, exists |-> TRUE, parses |-> TRUE, data |-> d] : d \in Inventories}

Init ==
    /\ ClassifierIdle
    /\ PartitionIdle
    /\ \E setup \in SidecarSetups :
          /\ extensions_map_file = setup.add
          /\ remove_extensions_map_file = setup.remove
          /\ blacklist_files = [o \in Outputs |-> IF o = "apps" THEN setup.apps_blacklist ELSE NoFile]
          /\ manual_files = [o \in Outputs |-> IF o = "stable" THEN setup.stable_manual ELSE NoManual]
    /\ image_info_file \in InventoryFiles
    /\ extensions_map = EmptyMap
    /\ remove_extensions_map = EmptyMap
    /\ stderr = <<>>
    /\ image_info = <<>>
    /\ pc = "start"
    /\ written = [o \in Outputs |-> NotWritten]
    /\ conf_wip_boards_stable = <<>>
    /\ csc_tvb_boards_community = <<>>

Spec == Init /\ [][Next]_vars

(***************************************************************************)
(* The partitioner on its own: one call of                                 *)
(* extract_boards_by_support_level, as main makes it for the               *)
(* standard-support manifest, with both returned groups kept.  Inventories *)
(* hold up to MaxRecords records of PartitionPool.                         *)
(***************************************************************************)
Partition ==
    /\ ppc = "partition"
    /\ groups' = ExtractFor("stable", image_info)
    /\ ppc' = "partitioned"
    /\ UNCHANGED <<select_input, select_result, classifierVars, sidecarVars, inputVars, mainVars>>

MaxRecords == 3

PartitionPool ==
    {FastEntry(BoardA, Current, "conf", Empty),
     SlowEntry(BoardA, Current, "csc", "yes"),
     FastEntry(BoardA, Vendor, "wip", Empty),
     FastEntry(BoardA, Edge, "conf", KttCurrentEdge),
     FastEntry(BoardA, Legacy, "conf", KttCurrentEdge),
     FastEntry(BoardA, Dev, "conf", Empty),
     FastEntry(BoardA, Dev, "tvb", Dev),
     MkEntry(BoardA, Current, "eos", "arm64", "yes", Empty, "", "true", Empty, "", "", Empty),
     FastEntry(BoardA, Current, "", Empty),
     FastEntry(BoardA, Empty, "conf", Empty),
     FastEntry(Empty, Current, "conf", Empty),
     HeadlessEntry(BoardB, Current, "tvb"),
     FastEntry(BoardB, Edge, "csc", Empty)}

PartitionInventories == UNION {[1..n -> PartitionPool] : n \in 0..MaxRecords}

BlacklistB == [exists |-> TRUE, lines |-> <<<<"b">>>>]

InitPartition ==
    /\ ClassifierIdle
    /\ extensions_map_file = NoFile
    /\ remove_extensions_map_file = NoFile
    /\ image_info_file = [given |-> FALSE, exists |-> FALSE, parses |-> FALSE, data |-> <<>>]
    /\ \E file \in {NoFile, BlacklistB} :
          blacklist_files = [o \in Outputs |-> IF o = "stable" THEN file ELSE NoFile]
    /\ manual_files = [o \in Outputs |-> NoManual]
    /\ extensions_map = [k \in {<<BoardA, Empty>>} |-> ExtX]
    /\ remove_extensions_map = EmptyMap
    /\ stderr = <<>>
    /\ image_info \in PartitionInventories
    /\ pc = "idle"
    /\ written = [o \in Outputs |-> NotWritten]
    /\ conf_wip_boards_stable = <<>>
    /\ csc_tvb_boards_community = <<>>
    /\ groups = NoGroups
    /\ select_input = <<>>
    /\ select_result = NotSelected
    /\ ppc = "partition"

NextPartition == Partition

SpecPartition == InitPartition /\ [][NextPartition]_vars

(***************************************************************************)
(* The selector on its own: one call of select_one_branch_per_board on a   *)
(* list of up to MaxSelect entries of SelectPool.                          *)
(***************************************************************************)
Select ==
    /\ ppc = "select"
    /\ select_result' = select_one_branch_per_board(select_input)
    /\ ppc' = "selected"
    /\ UNCHANGED <<groups, select_input, classifierVars, sidecarVars, inputVars, mainVars>>

MaxSelect == 3

KttEdgeCurrent == Edge \o <<",">> \o Current

KttEdgeCurrentEdge == Edge \o <<",">> \o Current \o <<",">> \o Edge

\* The entry extract_boards_by_support_level builds for a record.
SelectEntry(board, branch, ktt) ==
    NewBoardData(FastEntry(board, branch, "conf", ktt), EmptyMap, EmptyMap)

SelectPool ==
    {SelectEntry(BoardA, Current, Empty),
     SelectEntry(BoardA, Vendor, Empty),
     SelectEntry(BoardA, Legacy, Empty),
     SelectEntry(BoardA, Edge, Empty),
     SelectEntry(BoardA, Dev, Empty),
     SelectEntry(BoardA, Current, KttEdgeCurrent),
     SelectEntry(BoardA, Edge, KttEdgeCurrent),
     SelectEntry(BoardA, Vendor, KttEdgeCurrent),
     SelectEntry(BoardA, Current, KttEdgeCurrentEdge),
     SelectEntry(BoardA, Edge, KttEdgeCurrentEdge),
     SelectEntry(BoardB, Edge, Empty),
     SelectEntry(BoardB, Legacy, Empty)}

SelectInputs == UNION {[1..n -> SelectPool] : n \in 0..MaxSelect}

InitSelect ==
    /\ ClassifierIdle
    /\ MainIdle
    /\ extensions_map = EmptyMap
    /\ remove_extensions_map = EmptyMap
    /\ stderr = <<>>
    /\ groups = NoGroups
    /\ select_input \in SelectInputs
    /\ select_result = NotSelected
    /\ ppc = "select"

NextSelect == Select

SpecSelect == InitSelect /\ [][NextSelect]_vars

(***************************************************************************)
(* The generation steps of main with per-output sidecar files: one output  *)
(* has a blacklist file and one has a manual file.                         *)
(***************************************************************************)
SidecarPool ==
    {FastEntry(BoardA, Current, "conf", Empty),
     FastEntry(BoardA, Edge, "conf", Edge),
     FastEntry(BoardB, Current, "csc", Empty),
     MkEntry(BoardB, Current, "conf", "riscv64", "no", Empty, "", "true", Empty, "", "", Empty)}

SidecarInventories == UNION {[1..n -> SidecarPool] : n \in 0..MaxEntries}

BlacklistA == [exists |-> TRUE, lines |-> <<<<"#", "b">>, <<"a", " ">>>>]

ManualFiles ==
    {NoManual, [exists |-> TRUE, content |-> Empty], [exists |-> TRUE, content |-> ManualText]}

InitSidecars ==
    /\ ClassifierIdle
    /\ PartitionIdle
    /\ extensions_map_file = NoFile
    /\ remove_extensions_map_file = NoFile
    /\ extensions_map = EmptyMap
    /\ remove_extensions_map = EmptyMap
    /\ stderr = <<>>
    /\ \E t \in Outputs \ {"exposed"}, file \in {NoFile, BlacklistA, BlacklistB} :
          blacklist_files = [o \in Outputs |-> IF o = t THEN file ELSE NoFile]
    /\ \E t \in Outputs \ {"exposed"}, file \in ManualFiles :
          manual_files = [o \in Outputs |-> IF o = t THEN file ELSE NoManual]
    /\ image_info \in SidecarInventories
    /\ image_info_file = [given |-> TRUE, exists |-> TRUE, parses |-> TRUE, data |-> image_info]
    /\ pc = "apps"
    /\ written = [o \in Outputs |-> NotWritten]
    /\ conf_wip_boards_stable = <<>>
    /\ csc_tvb_boards_community = <<>>

NextSidecars ==
    \/ GenerateApps
    \/ GenerateStable
    \/ GenerateNightly
    \/ GenerateCommunity
    \/ GenerateExposed

SpecSidecars == InitSidecars /\ [][NextSidecars]_vars

(***************************************************************************)
(* Properties.                                                             *)
(***************************************************************************)
Inventory == entry.in.inventory

\* The names a comma-separated text holds: its stripped, non-empty pieces.
NamesOf(text) ==
    LET pieces == Split(text, ",")
    IN  {Strip(pieces[i]) : i \in 1..Len(pieces)} \ {Empty}

\* The names in the result of get_soc_extensions.
ResultNames == NamesOf(extensions)

\* C1 as stated: the reference board uefi-loong64 is classified loongarch for
\* every combination of the other fields, BOARD_HAS_VIDEO = false included.
C1_ReferenceBoardAlways ==
    (cpc = "done" /\ Inventory.BOARD = UefiLoong64) => is_fast = "loongarch"

\* C1 amended: the reference board uefi-loong64 is classified loongarch for
\* every architecture, family and SoC whenever BOARD_HAS_VIDEO is true; without
\* video it is headless like every other board.
C1_ReferenceBoardWithVideo ==
    (cpc = "done" /\ Inventory.BOARD = UefiLoong64) =>
        is_fast = IF Inventory.BOARD_HAS_VIDEO = "true" THEN "loongarch" ELSE "None"

C1_Witness ==
    /\ cpc = "done"
    /\ Inventory.BOARD = UefiLoong64
    /\ Inventory.BOARD_HAS_VIDEO = "true"
    /\ entry.out.ARCH = "armhf"
    /\ Inventory.BOARDFAMILY = MesonGxl
    /\ is_fast = "loongarch"

\* C2: a record whose BOARD_HAS_VIDEO is false or absent is headless, whatever
\* its board identifier, architecture, family and SoC are.
C2_HeadlessPrecedence ==
    (cpc = "done" /\ Inventory.BOARD_HAS_VIDEO \in {"false", "absent"}) =>
        is_fast = "None"

C2_Witness ==
    /\ cpc = "done"
    /\ Inventory.BOARD_HAS_VIDEO = "absent"
    /\ Inventory.BOARD = UefiLoong64
    /\ entry.out.ARCH = "riscv64"
    /\ Inventory.BOOT_SOC = "rk3399"
    /\ is_fast = "None"

\* C9: is_fast_hardware is the ordered rule table, first match wins, over the
\* effective family (inventory, else top-level vars) and the effective SoC
\* (inventory, else top-level vars, else output section).
C9_RuleTable ==
    cpc = "done" =>
        LET board == Inventory.BOARD
            arch == entry.out.ARCH
            fam == IF Inventory.BOARDFAMILY = Empty
                   THEN Inventory.BOARD_TOP_LEVEL_VARS.BOARDFAMILY
                   ELSE Inventory.BOARDFAMILY
            soc == IF Inventory.BOOT_SOC # "" THEN Inventory.BOOT_SOC
                   ELSE IF Inventory.BOARD_TOP_LEVEL_VARS.BOOT_SOC # ""
                        THEN Inventory.BOARD_TOP_LEVEL_VARS.BOOT_SOC
                        ELSE entry.out.BOOT_SOC
            r1 == Inventory.BOARD_HAS_VIDEO # "true"
            r2 == board = UefiLoong64
            r3 == arch = "arm" \/ arch = "armhf"
            r4 == \E k \in 0..Len(fam) :
                      SubSeq(fam, 1, k) \in {Sun50iw, Sun55iw}
            r5 == fam \in {MesonGxbb, MesonGxl, MesonG12a, MesonG12b, MesonSm1}
            r6 == fam = NuvotonMa35d1
            r7 == soc \in {"rk3328", "rk3399", "rk3399pro"}
            r8 == arch = "riscv64"
            r9 == arch = "loongarch64"
            slow == r3 \/ r4 \/ r5 \/ r6 \/ r7
        IN  /\ r1 => is_fast = "None"
            /\ (~r1 /\ r2) => is_fast = "loongarch"
            /\ (~r1 /\ ~r2 /\ slow) => is_fast = "False"
            /\ (~r1 /\ ~r2 /\ ~slow /\ r8) => is_fast = "riscv64"
            /\ (~r1 /\ ~r2 /\ ~slow /\ ~r8 /\ r9) => is_fast = "loongarch"
            /\ (~r1 /\ ~r2 /\ ~slow /\ ~r8 /\ ~r9) => is_fast = "True"

C9_Witness ==
    /\ cpc = "done"
    /\ Inventory.BOARD_HAS_VIDEO = "true"
    /\ Inventory.BOARD = BoardA
    /\ entry.out.ARCH = "riscv64"
    /\ Inventory.BOARDFAMILY = Empty
    /\ Inventory.BOARD_TOP_LEVEL_VARS.BOARDFAMILY = Empty
    /\ Inventory.BOOT_SOC = ""
    /\ Inventory.BOARD_TOP_LEVEL_VARS.BOOT_SOC = ""
    /\ entry.out.BOOT_SOC = "rk3328"
    /\ is_fast = "False"

ExactKey == <<Inventory.BOARD, entry.in.vars.BRANCH>>

WildcardKey == <<Inventory.BOARD, Empty>>

BothAddEntries ==
    /\ cpc = "done"
    /\ ExactKey \in DOMAIN extensions_map
    /\ WildcardKey \in DOMAIN extensions_map

\* The names the remove map takes away from this record.
RemovedNames ==
    IF ExactKey \in DOMAIN remove_extensions_map
    THEN remove_extensions_map[ExactKey]
    ELSE IF WildcardKey \in DOMAIN remove_extensions_map
         THEN remove_extensions_map[WildcardKey]
         ELSE {}

AutoNames == IF is_fast = "True" THEN {V4l2loopbackDkms, MesaVpu} ELSE {}

\* C10 as stated: with an exact and a wildcard add entry, only the names of
\* the exact entry are merged and no name that occurs only in the wildcard
\* entry appears in the result.
C10_NoWildcardOnlyName ==
    BothAddEntries =>
        /\ NamesOf(extensions_map[ExactKey]) \ RemovedNames \subseteq ResultNames
        /\ \A n \in NamesOf(extensions_map[WildcardKey])
                       \ NamesOf(extensions_map[ExactKey]) :
               n \notin ResultNames

\* C10 amended: with an exact and a wildcard add entry, only the names of the
\* exact entry are merged: every name of the result is a name of the exact
\* entry or one of the two names auto-added for a fast record, so a name that
\* occurs only in the wildcard entry appears only when it is auto-added.  The
\* wildcard entry is merged only when no exact entry exists.
C10_ExactShadowsWildcard ==
    /\ BothAddEntries =>
           /\ NamesOf(extensions_map[ExactKey]) \ RemovedNames \subseteq ResultNames
           /\ ResultNames \subseteq NamesOf(extensions_map[ExactKey]) \cup AutoNames
    /\ (cpc = "done" /\ ExactKey \notin DOMAIN extensions_map
                     /\ WildcardKey \in DOMAIN extensions_map) =>
           /\ NamesOf(extensions_map[WildcardKey]) \ RemovedNames
                  \subseteq ResultNames
           /\ ResultNames \subseteq
                  NamesOf(extensions_map[WildcardKey]) \cup AutoNames

C10_Witness ==
    /\ BothAddEntries
    /\ extensions_map[ExactKey] = ExtX
    /\ extensions_map[WildcardKey] = <<"y", ",", "x">>
    /\ RemovedNames = {}
    /\ is_fast = "True"
    /\ extensions = Join(<<V4l2loopbackDkms, MesaVpu, ExtX>>, ",")


\* The line BOARD:branch1:...:branchN:KEY="value" of the documented format; with
\* no branch it is BOARD::KEY="value".
DocumentedLine(board, branches, key, value) ==
    IF branches = <<>> THEN MapLine(board, <<>>, <<":", ":">>, key, value)
    ELSE MapLine(board, branches, <<":">>, key, value)

\* What C8 says a one-line file of the documented format loads as: one entry
\* per listed branch and no wildcard entry, or exactly the wildcard entry.
DocumentedLoad(file, loaded, key, value, stored) ==
    \A brs \in LineBranchLists :
        file = [exists |-> TRUE, lines |-> <<DocumentedLine(BoardA, brs, key, value)>>] =>
            loaded = [k \in (IF brs = <<>> THEN {<<BoardA, Empty>>}
                             ELSE {<<BoardA, brs[i]>> : i \in 1..Len(brs)})
                      |-> stored]

\* C8: a line BOARD:branch1:branch2:...:KEY="v1,v2" with a non-empty branch list
\* yields one entry (BOARD, branch) per listed branch and no wildcard entry; a
\* line with an empty branch list yields exactly the wildcard entry (BOARD, '').
C8_DocumentedLineFormat ==
    pc = "load_image_info" =>
        /\ DocumentedLoad(extensions_map_file, extensions_map, KeyEnable, QuotedYX,
                          <<"y", ",", " ", "x">>)
        /\ DocumentedLoad(remove_extensions_map_file, remove_extensions_map, KeyRemove,
                          QuotedYX, {ExtX, ExtY})

(***************************************************************************)
(* Properties of the pipeline.                                             *)
(***************************************************************************)
Manifests == {"apps", "stable", "nightly", "community"}

PcValues == {"idle", "start", "exit1", "load_extensions", "load_remove", "load_image_info", "apps", "stable", "nightly", "community", "exposed", "done", "raised"}

TypeOK == pc \in PcValues /\ DOMAIN written = Outputs

\* The blocks of a written manifest.
Blocks(o) == written[o].content

\* Some emitted list of manifest o has this name and holds a board.
NonEmptyListNamed(o, name) ==
    \E j \in 1..Len(Blocks(o)) :
        /\ Blocks(o)[j].kind = "list"
        /\ Blocks(o)[j].name = name
        /\ Blocks(o)[j].items # <<>>

\* C3: every written manifest has no empty board list, and every target of
\* it references at least one list, each of them emitted and holding a board.
C3_NoEmptyListOrTarget ==
    \A o \in Manifests :
        written[o].present =>
            \A i \in 1..Len(Blocks(o)) :
                /\ Blocks(o)[i].kind = "list" => Blocks(o)[i].items # <<>>
                /\ Blocks(o)[i].kind = "target" =>
                       /\ Blocks(o)[i].refs # <<>>
                       /\ \A k \in 1..Len(Blocks(o)[i].refs) :
                              NonEmptyListNamed(o, Blocks(o)[i].refs[k])

\* The lists that the target `target` of manifest o references.
RefsOf(o, target) ==
    UNION {{Blocks(o)[i].refs[k] : k \in 1..Len(Blocks(o)[i].refs)} :
              i \in {j \in 1..Len(Blocks(o)) :
                        Blocks(o)[j].kind = "target" /\ Blocks(o)[j].name = target}}

\* Some list of manifest o among `names` has an item for (board, branch).
ListedIn(o, names, board, branch) ==
    \E j \in 1..Len(Blocks(o)) :
        /\ Blocks(o)[j].kind = "list"
        /\ Blocks(o)[j].name \in names
        /\ \E k \in 1..Len(Blocks(o)[j].items) :
               /\ Blocks(o)[j].items[k].BOARD = board
               /\ Blocks(o)[j].items[k].BRANCH = branch

\* The community group has an entry of this board on branch current.
HasCurrentEntry(board) ==
    \E i \in 1..Len(csc_tvb_boards_community) :
        /\ csc_tvb_boards_community[i].board = board
        /\ csc_tvb_boards_community[i].branch = Current

\* C4: in the written community manifest every community entry on current,
\* vendor or legacy, and every edge entry of a board without a current entry,
\* is an item of a list that community-trixie-all references.
C4_TrixieAllSpansAllBuckets ==
    written["community"].present =>
        \A i \in 1..Len(csc_tvb_boards_community) :
            LET b == csc_tvb_boards_community[i]
            IN  (\/ b.branch \in {Current, Vendor, Legacy}
                 \/ b.branch = Edge /\ ~HasCurrentEntry(b.board))
                => ListedIn("community", RefsOf("community", "community-trixie-all"),
                            b.board, b.branch)

BoardsOf(list) == {list[i].board : i \in 1..Len(list)}

\* select_one_branch_per_board(group) returns, and returns one entry for each
\* board of the group.
OnePerBoard(group) ==
    LET selected == select_one_branch_per_board(group)
    IN  /\ ~selected.raised
        /\ BoardsOf(selected.boards) = BoardsOf(group)
        /\ \A i, j \in 1..Len(selected.boards) :
               selected.boards[i].board = selected.boards[j].board => i = j

\* C5: for the groups that extract_boards_by_support_level has produced (the
\* primary group, the community group, and the two concatenated as the
\* pattern emitter does) select_one_branch_per_board returns exactly one entry
\* per distinct board.
C5_ExactlyOneEntryPerBoard ==
    /\ OnePerBoard(conf_wip_boards_stable)
    /\ OnePerBoard(csc_tvb_boards_community)
    /\ OnePerBoard(WithBoardType(conf_wip_boards_stable, "stable")
                   \o WithBoardType(csc_tvb_boards_community, "community"))

Permuted(records, perm) == [i \in 1..Len(records) |-> records[perm[i]]]

\* C6: a completed run has written, for each of the five outputs, what the
\* same run computes from every permutation of the inventory records.
C6_OrderIndependent ==
    pc = "done" =>
        \A perm \in Permutations(1..Len(image_info)) :
            LET records == Permuted(image_info, perm)
            IN  /\ AppsYaml(records) = Document(written["apps"].content)
                /\ StableYaml(records) = Document(written["stable"].content)
                /\ NightlyYaml(records) = Document(written["nightly"].content)
                /\ CommunityYaml(records) = Document(written["community"].content)
                /\ ExposedMap(records) = Document(written["exposed"].content)

\* C7: a run that has ended has written all five output files or none.
C7_AllOrNothing ==
    pc \in {"done", "raised", "exit1"} =>
        \/ \A o \in Outputs : written[o].present
        \/ \A o \in Outputs : ~written[o].present

(***************************************************************************)
(* Properties of get_soc_extensions, continued.                            *)
(***************************************************************************)
\* The list of names a joined result holds ('' is the empty list).
ListOf(text) == IF text = Empty THEN <<>> ELSE Split(text, ",")

\* The merged list of auto-added and manually added names of the record:
\* the result when nothing is removed.
MergedList == ListOf(get_soc_extensions(entry, extensions_map, EmptyMap))

RECURSIVE Without(_, _)
\* list with the members of names left out, the rest in their order
Without(list, names) ==
    IF list = <<>> THEN <<>>
    ELSE (IF Head(list) \in names THEN <<>> ELSE <<Head(list)>>)
         \o Without(Tail(list), names)

\* C11: removal consults the exact remove entry, else the wildcard one (never
\* both), and filters the merged list: every removed name is absent from the
\* result, every other name is kept once in its original relative order, and
\* removal names that are not in the merged list change nothing.
C11_RemovalFiltersMergedList ==
    cpc = "done" =>
        LET result == ListOf(extensions)
        IN  /\ result = Without(MergedList, RemovedNames)
            /\ \A i \in 1..Len(result) : result[i] \notin RemovedNames
            /\ \A i, j \in 1..Len(result) : result[i] = result[j] => i = j
            /\ (\A i \in 1..Len(MergedList) : MergedList[i] \notin RemovedNames)
                   => result = MergedList

C11_Witness ==
    /\ cpc = "done"
    /\ is_fast = "True"
    /\ ExactKey \in DOMAIN extensions_map
    /\ extensions_map[ExactKey] = <<"y", ",", "x">>
    /\ ExactKey \in DOMAIN remove_extensions_map
    /\ remove_extensions_map[ExactKey] = {ExtX}
    /\ WildcardKey \in DOMAIN remove_extensions_map
    /\ remove_extensions_map[WildcardKey] = {MesaVpu}
    /\ extensions = Join(<<V4l2loopbackDkms, MesaVpu, ExtY>>, ",")

NoAddEntry ==
    ExactKey \notin DOMAIN extensions_map /\ WildcardKey \notin DOMAIN extensions_map

NoRemoveEntry ==
    /\ ExactKey \notin DOMAIN remove_extensions_map
    /\ WildcardKey \notin DOMAIN remove_extensions_map

\* C12: v4l2loopback-dkms and mesa-vpu, in that order, are auto-added exactly
\* for the fast category: a fast record with no matching add or remove entry
\* has exactly these two, and a record of any other category with no matching
\* add entry has the empty extension list.
C12_AutoAddedIffFast ==
    (cpc = "done" /\ NoAddEntry) =>
        /\ (is_fast = "True" /\ NoRemoveEntry) =>
               extensions = Join(<<V4l2loopbackDkms, MesaVpu>>, ",")
        /\ is_fast # "True" => extensions = Empty

C12_Witness ==
    /\ cpc = "done"
    /\ NoAddEntry
    /\ NoRemoveEntry
    /\ DOMAIN extensions_map = {<<BoardB, Current>>}
    /\ is_fast = "True"
    /\ extensions = Join(<<V4l2loopbackDkms, MesaVpu>>, ",")

(***************************************************************************)
(* Properties of extract_boards_by_support_level, over SpecPartition.      *)
(***************************************************************************)
RecBoard(i) == image_info[i].in.inventory.BOARD

RecBranch(i) == image_info[i].in.vars.BRANCH

RecLevel(i) == image_info[i].in.inventory.BOARD_SUPPORT_LEVEL

RecAllowList(i) == image_info[i].in.inventory.BOARD_TOP_LEVEL_VARS.KERNEL_TEST_TARGET

\* The board names of the blacklist file given to the call.
PartitionBlacklist ==
    IF blacklist_files["stable"].exists
    THEN {Strip(blacklist_files["stable"].lines[i]) :
             i \in 1..Len(blacklist_files["stable"].lines)}
    ELSE {}

\* Record i is not dropped by the blacklist or the support-tier filter, and
\* names a board and a branch.
NotDropped(i) ==
    /\ RecBoard(i) # Empty
    /\ RecBranch(i) # Empty
    /\ RecBoard(i) \notin PartitionBlacklist
    /\ RecLevel(i) \in {"conf", "wip", "csc", "tvb"}

Pairs == {<<RecBoard(i), RecBranch(i)>> : i \in 1..Len(image_info)}

\* The records collapsed into the pair, in input order.
RecordsOf(pair) ==
    {i \in 1..Len(image_info) :
        NotDropped(i) /\ RecBoard(i) = pair[1] /\ RecBranch(i) = pair[2]}

\* The first of them, which establishes the entry.
FirstOf(pair) == CHOOSE i \in RecordsOf(pair) : \A k \in RecordsOf(pair) : i <= k

\* The branch filter: the allow-list of the establishing record when it
\* declares one, else current, vendor, legacy, edge.
BranchAllowed(branch, allow_list) ==
    IF allow_list # Empty THEN branch \in NamesOf(allow_list)
    ELSE branch \in {Current, Vendor, Legacy, Edge}

Survives(pair) ==
    /\ RecordsOf(pair) # {}
    /\ BranchAllowed(pair[2], RecAllowList(FirstOf(pair)))

\* The positions of the pair's entries in a group.
At(group, pair) ==
    {k \in 1..Len(group) : group[k].board = pair[1] /\ group[k].branch = pair[2]}

BothGroups == groups.conf_wip_boards \o groups.csc_tvb_boards

\* C13: every (board, branch) pair that survives the blacklist, support-tier
\* and branch filters is in exactly one of the two returned groups: in the
\* primary group iff its tier is conf or wip, in the community group iff its
\* tier is csc or tvb, never in both.
C13_PartitionComplete ==
    ppc = "partitioned" =>
        \A pair \in Pairs :
            Survives(pair) =>
                LET tier == RecLevel(FirstOf(pair))
                    primary == Cardinality(At(groups.conf_wip_boards, pair))
                    community == Cardinality(At(groups.csc_tvb_boards, pair))
                IN  /\ primary + community = 1
                    /\ primary = 1 <=> tier \in {"conf", "wip"}
                    /\ community = 1 <=> tier \in {"csc", "tvb"}

C13_Witness ==
    /\ ppc = "partitioned"
    /\ image_info = <<FastEntry(BoardA, Vendor, "wip", Empty),
                      SlowEntry(BoardA, Current, "csc", "yes"),
                      FastEntry(BoardA, Current, "conf", Empty)>>
    /\ Len(groups.conf_wip_boards) = 1
    /\ groups.conf_wip_boards[1].branch = Vendor
    /\ Len(groups.csc_tvb_boards) = 1
    /\ groups.csc_tvb_boards[1].branch = Current

\* C14: the two groups together hold at most one entry per (board, branch)
\* pair, and the entry's category, extension list and support tier are those
\* of the first record of the pair in input order (the first one that the
\* blacklist and tier filters keep); later records do not change them.
C14_FirstRecordEstablishes ==
    ppc = "partitioned" =>
        \A pair \in Pairs :
            /\ Cardinality(At(BothGroups, pair)) <= 1
            /\ \A k \in At(BothGroups, pair) :
                   LET first == image_info[FirstOf(pair)]
                   IN  /\ BothGroups[k].is_fast = is_fast_hardware(first)
                       /\ BothGroups[k].extensions =
                              get_soc_extensions(first, extensions_map, remove_extensions_map)
                       /\ BothGroups[k].support_level = first.in.inventory.BOARD_SUPPORT_LEVEL
                       /\ BothGroups[k].arch = first.out.ARCH

C14_Witness ==
    /\ ppc = "partitioned"
    /\ image_info = <<FastEntry(BoardA, Current, "conf", Empty),
                      SlowEntry(BoardA, Current, "csc", "yes")>>
    /\ groups.csc_tvb_boards = <<>>
    /\ Len(groups.conf_wip_boards) = 1
    /\ groups.conf_wip_boards[1].is_fast = "True"
    /\ groups.conf_wip_boards[1].support_level = "conf"
    /\ groups.conf_wip_boards[1].extensions = Join(<<V4l2loopbackDkms, MesaVpu, ExtX>>, ",")

\* records with a copy of record i inserted after position j
WithCopy(records, i, j) ==
    SubSeq(records, 1, j) \o <<records[i]>> \o SubSeq(records, j + 1, Len(records))

\* C15: an inventory in which a record occurs a second time (anywhere after
\* its first occurrence) yields the same groups as the inventory without the
\* second occurrence, and every entry's has_desktop_variant is the logical OR
\* of BUILD_DESKTOP == 'yes' over the records collapsed into its pair.
C15_CollapseIdempotent ==
    ppc = "partitioned" =>
        /\ \A i \in 1..Len(image_info) : \A j \in i..Len(image_info) :
               ExtractFor("stable", WithCopy(image_info, i, j)) = groups
        /\ \A k \in 1..Len(BothGroups) :
               BothGroups[k].has_desktop_variant
                   <=> \E i \in RecordsOf(<<BothGroups[k].board, BothGroups[k].branch>>) :
                           image_info[i].in.vars.BUILD_DESKTOP = "yes"

C15_Witness ==
    /\ ppc = "partitioned"
    /\ image_info = <<FastEntry(BoardA, Current, "conf", Empty),
                      SlowEntry(BoardA, Current, "csc", "yes"),
                      FastEntry(BoardA, Current, "conf", Empty)>>
    /\ Len(groups.conf_wip_boards) = 1
    /\ groups.conf_wip_boards[1].has_desktop_variant
    /\ groups.conf_wip_boards[1].is_fast = "True"

\* C16: no entry of either group has a blacklisted board, a support tier
\* outside conf, wip, csc, tvb, a missing board or branch, or a branch outside
\* its KERNEL_TEST_TARGET allow-list when it declares one and outside current,
\* vendor, legacy, edge when it declares none.
C16_NoDroppedEntry ==
    ppc = "partitioned" =>
        \A k \in 1..Len(BothGroups) :
            LET g == BothGroups[k]
            IN  /\ g.board \notin PartitionBlacklist
                /\ g.support_level \in {"conf", "wip", "csc", "tvb"}
                /\ g.board # Empty
                /\ g.branch # Empty
                /\ BranchAllowed(g.branch,
                       g.entry.in.inventory.BOARD_TOP_LEVEL_VARS.KERNEL_TEST_TARGET)

C16_Witness ==
    /\ ppc = "partitioned"
    /\ PartitionBlacklist = {BoardB}
    /\ image_info = <<HeadlessEntry(BoardB, Current, "tvb"),
                      FastEntry(BoardA, Legacy, "conf", KttCurrentEdge),
                      FastEntry(BoardA, Dev, "tvb", Dev)>>
    /\ groups.conf_wip_boards = <<>>
    /\ Len(groups.csc_tvb_boards) = 1
    /\ groups.csc_tvb_boards[1].branch = Dev

(***************************************************************************)
(* Properties of select_one_branch_per_board, over SpecSelect.             *)
(***************************************************************************)
AllowListOf(board_data) ==
    board_data.entry.in.inventory.BOARD_TOP_LEVEL_VARS.KERNEL_TEST_TARGET

SelectBoards == {select_input[k].board : k \in 1..Len(select_input)}

InputOf(board) == {k \in 1..Len(select_input) : select_input[k].board = board}

\* The documented priority number of a branch: its position in the allow-list
\* (first element 1) when one is declared, else current 1, vendor and legacy
\* 2, edge 3; 0 when the branch is not in the order.
PriorityNumber(branch, allow_list) ==
    IF allow_list # Empty
    THEN LET order == StrippedNonEmpty(Split(allow_list, ","))
         IN  IF \E i \in 1..Len(order) : order[i] = branch
             THEN CHOOSE i \in 1..Len(order) :
                      /\ order[i] = branch
                      /\ \A j \in 1..(i - 1) : order[j] # branch
             ELSE 0
    ELSE CASE branch = Current -> 1
           [] branch \in {Vendor, Legacy} -> 2
           [] branch = Edge -> 3
           [] OTHER -> 0

Number(k) == PriorityNumber(select_input[k].branch, AllowListOf(select_input[k]))

Eligible(board) == {k \in InputOf(board) : Number(k) # 0}

\* The entry the documented rule keeps for a board with an eligible entry: the
\* lowest priority number, and among equals the one seen first.
Preferred(board) ==
    CHOOSE k \in Eligible(board) :
        \A m \in Eligible(board) : Number(k) < Number(m) \/ (Number(k) = Number(m) /\ k <= m)

\* The result is what the documented rule keeps for the board.
KeepsPreferred(board) ==
    LET kept == {r \in 1..Len(select_result.boards) : select_result.boards[r].board = board}
    IN  IF Eligible(board) = {} THEN kept = {}
        ELSE /\ Cardinality(kept) = 1
             /\ \A r \in kept : select_result.boards[r] = select_input[Preferred(board)]

\* C17: with no custom allow-list on any entry, select_one_branch_per_board
\* keeps for each board the entry with the lowest priority number under
\* current = 1, vendor = legacy = 2, edge = 3, whatever the input order, and
\* of two entries that tie the one seen first.
C17_DefaultPriority ==
    (ppc = "selected" /\ \A k \in 1..Len(select_input) : AllowListOf(select_input[k]) = Empty) =>
        /\ ~select_result.raised
        /\ \A board \in SelectBoards : KeepsPreferred(board)

C17_Witness ==
    /\ ppc = "selected"
    /\ select_input = <<SelectEntry(BoardA, Edge, Empty),
                        SelectEntry(BoardA, Legacy, Empty),
                        SelectEntry(BoardA, Vendor, Empty)>>
    /\ select_result.boards = <<SelectEntry(BoardA, Legacy, Empty)>>

\* All entries of the board declare the same, non-empty allow-list.
OneAllowList(board) ==
    \A k, m \in InputOf(board) :
        /\ AllowListOf(select_input[k]) # Empty
        /\ AllowListOf(select_input[k]) = AllowListOf(select_input[m])

\* C18: when a board declares a KERNEL_TEST_TARGET allow-list, the list's
\* order is the priority, first element highest: the entry whose branch comes
\* earliest in the allow-list is returned, and an entry whose branch is absent
\* from the list is never returned.
C18_AllowListOrder ==
    ppc = "selected" =>
        \A board \in SelectBoards :
            OneAllowList(board) => ~select_result.raised /\ KeepsPreferred(board)

\* The same on allow-lists that name no branch twice.
NoRepeat(allow_list) ==
    LET order == StrippedNonEmpty(Split(allow_list, ","))
    IN  \A i, j \in 1..Len(order) : order[i] = order[j] => i = j

C18_AllowListOrderNoRepeat ==
    ppc = "selected" =>
        \A board \in SelectBoards :
            (OneAllowList(board) /\ \A k \in InputOf(board) : NoRepeat(AllowListOf(select_input[k])))
                => ~select_result.raised /\ KeepsPreferred(board)

(***************************************************************************)
(* Properties of the community and standard-support manifests, over Spec.  *)
(***************************************************************************)
EdgeLists ==
    {"community-edge-fast-hdmi", "community-edge-slow-hdmi", "community-edge-headless",
     "community-edge-riscv64", "community-edge-loongarch"}

\* The items of board in the lists of manifest o among `names`, each as
\* <<block, position>>.
ItemsOf(o, names, board) ==
    {bk \in UNION {{<<j, k>> : k \in 1..Len(Blocks(o)[j].items)} : j \in 1..Len(Blocks(o))} :
        /\ Blocks(o)[bk[1]].kind = "list"
        /\ Blocks(o)[bk[1]].name \in names
        /\ Blocks(o)[bk[1]].items[bk[2]].BOARD = board}

\* C19: in the written community manifest, the board of an edge entry of the
\* community group is in no edge list when the group also has a current entry
\* of that board, and otherwise is in exactly one edge list, once, with branch
\* edge.
C19_EdgeOnlyWithoutCurrent ==
    written["community"].present =>
        \A i \in 1..Len(csc_tvb_boards_community) :
            LET b == csc_tvb_boards_community[i]
                listed == ItemsOf("community", EdgeLists, b.board)
            IN  b.branch = Edge =>
                    IF HasCurrentEntry(b.board) THEN listed = {}
                    ELSE /\ Cardinality(listed) = 1
                         /\ \A bk \in listed :
                                Blocks("community")[bk[1]].items[bk[2]].BRANCH = Edge

C19_Witness ==
    /\ written["community"].present
    /\ Len(csc_tvb_boards_community) = 2
    /\ csc_tvb_boards_community[1].board = BoardB
    /\ csc_tvb_boards_community[1].branch = Current
    /\ csc_tvb_boards_community[2].board = BoardB
    /\ csc_tvb_boards_community[2].branch = Edge
    /\ ItemsOf("community", EdgeLists, BoardB) = {}
    /\ ListedIn("community", {"community-current-fast-hdmi"}, BoardB, Current)

\* The list of the standard-support manifest for a branch and a category.
StableListName(branch, category) ==
    CASE branch = Current /\ category = "True" -> "stable-current-fast-hdmi"
      [] branch = Current /\ category = "False" -> "stable-current-slow-hdmi"
      [] branch = Current /\ category = "None" -> "stable-current-headless"
      [] branch = Current /\ category = "riscv64" -> "stable-current-riscv64"
      [] branch = Current /\ category = "loongarch" -> "stable-current-loongarch"
      [] branch = Vendor /\ category = "True" -> "stable-vendor-fast-hdmi"
      [] branch = Vendor /\ category = "False" -> "stable-vendor-slow-hdmi"
      [] branch = Vendor /\ category = "None" -> "stable-vendor-headless"
      [] branch = Vendor /\ category = "riscv64" -> "stable-vendor-riscv64"
      [] branch = Vendor /\ category = "loongarch" -> "stable-vendor-loongarch"
      [] branch = Legacy /\ category = "True" -> "stable-legacy-fast-hdmi"
      [] branch = Legacy /\ category = "False" -> "stable-legacy-slow-hdmi"
      [] branch = Legacy /\ category = "None" -> "stable-legacy-headless"
      [] branch = Legacy /\ category = "riscv64" -> "stable-legacy-riscv64"
      [] branch = Legacy /\ category = "loongarch" -> "stable-legacy-loongarch"

ListNames(o) ==
    {Blocks(o)[j].name : j \in {i \in 1..Len(Blocks(o)) : Blocks(o)[i].kind = "list"}}

\* How many times the targets of manifest o named `target` reference `name`.
ReferenceCount(o, target, name) ==
    Cardinality(
        {bk \in UNION {{<<j, k>> : k \in 1..Len(Blocks(o)[j].refs)} : j \in 1..Len(Blocks(o))} :
            /\ Blocks(o)[bk[1]].kind = "target"
            /\ Blocks(o)[bk[1]].name = target
            /\ Blocks(o)[bk[1]].refs[bk[2]] = name})

\* C20: in the written standard-support manifest every primary entry on
\* current, vendor or legacy is an item of exactly one named list, the list of
\* its branch and category, and each of minimal-stable-debian and
\* minimal-stable-ubuntu references that list exactly once.
C20_StableListedOnceAndReferenced ==
    written["stable"].present =>
        \A i \in 1..Len(conf_wip_boards_stable) :
            LET b == conf_wip_boards_stable[i]
                listed == {bk \in ItemsOf("stable", ListNames("stable"), b.board) :
                              Blocks("stable")[bk[1]].items[bk[2]].BRANCH = b.branch}
            IN  b.branch \in {Current, Vendor, Legacy} =>
                    /\ Cardinality(listed) = 1
                    /\ \A bk \in listed :
                           Blocks("stable")[bk[1]].name = StableListName(b.branch, b.is_fast)
                    /\ ReferenceCount("stable", "minimal-stable-debian",
                                      StableListName(b.branch, b.is_fast)) = 1
                    /\ ReferenceCount("stable", "minimal-stable-ubuntu",
                                      StableListName(b.branch, b.is_fast)) = 1

C20_Witness ==
    /\ written["stable"].present
    /\ Len(conf_wip_boards_stable) = 2
    /\ conf_wip_boards_stable[1].branch = Vendor
    /\ conf_wip_boards_stable[2].branch = Legacy
    /\ ListedIn("stable", {"stable-vendor-fast-hdmi"}, BoardA, Vendor)
    /\ ListedIn("stable", {"stable-legacy-fast-hdmi"}, BoardA, Legacy)
    /\ ReferenceCount("stable", "minimal-stable-ubuntu", "stable-legacy-fast-hdmi") = 1

(***************************************************************************)
(* Properties of the targets of the manifests, over Spec.                  *)
(***************************************************************************)
HeadlessAndLoongarchLists ==
    {"stable-current-headless", "stable-vendor-headless", "stable-legacy-headless",
     "stable-current-loongarch", "stable-vendor-loongarch", "stable-legacy-loongarch",
     "nightly-headless", "nightly-loongarch",
     "community-current-headless", "community-vendor-headless", "community-edge-headless",
     "community-current-loongarch", "community-vendor-loongarch", "community-edge-loongarch"}

\* The lists that the targets of manifest o with BUILD_DESKTOP "yes" reference.
DesktopRefs(o) ==
    UNION {{Blocks(o)[i].refs[k] : k \in 1..Len(Blocks(o)[i].refs)} :
              i \in {j \in 1..Len(Blocks(o)) :
                        Blocks(o)[j].kind = "target" /\ Blocks(o)[j].vars.BUILD_DESKTOP = "yes"}}

\* The group a manifest is generated from.
GroupOf(o) ==
    IF o = "community" THEN ExtractFor(o, image_info).csc_tvb_boards
    ELSE ExtractFor(o, image_info).conf_wip_boards

\* C21: in the written standard-support, nightly and community manifests no
\* target with BUILD_DESKTOP "yes" references a headless or a loongarch list,
\* and no entry of the headless or loongarch category is an item of a list
\* that such a target references.
C21_NoDesktopForHeadlessOrLoongarch ==
    \A o \in {"stable", "nightly", "community"} :
        written[o].present =>
            /\ DesktopRefs(o) \cap HeadlessAndLoongarchLists = {}
            /\ \A i \in 1..Len(GroupOf(o)) :
                   GroupOf(o)[i].is_fast \in {"None", "loongarch"} =>
                       ~ListedIn(o, DesktopRefs(o), GroupOf(o)[i].board, GroupOf(o)[i].branch)

C21_Witness ==
    /\ written["stable"].present
    /\ NonEmptyListNamed("stable", "stable-current-headless")
    /\ NonEmptyListNamed("stable", "stable-current-fast-hdmi")
    /\ "stable-current-fast-hdmi" \in DesktopRefs("stable")
    /\ "stable-current-headless" \in RefsOf("stable", "minimal-stable-debian")

\* The list of the nightly manifest for a category.
NightlyListName(category) ==
    CASE category = "True" -> "nightly-fast-hdmi"
      [] category = "False" -> "nightly-slow-hdmi"
      [] category = "riscv64" -> "nightly-riscv64"
      [] category = "loongarch" -> "nightly-loongarch"
      [] category = "None" -> "nightly-headless"

\* C22: in the written nightly manifest every board of the primary group is
\* an item exactly once over all lists, with the branch that
\* select_one_branch_per_board chose for it, in the list of that entry's
\* category, and nightly-forky-all references every list that holds a board.
C22_NightlyOncePerBoard ==
    written["nightly"].present =>
        LET chosen == select_one_branch_per_board(GroupOf("nightly")).boards
        IN  /\ \A board \in BoardsOf(GroupOf("nightly")) :
                   /\ Cardinality(ItemsOf("nightly", ListNames("nightly"), board)) = 1
                   /\ \E r \in 1..Len(chosen) :
                          /\ chosen[r].board = board
                          /\ \A bk \in ItemsOf("nightly", ListNames("nightly"), board) :
                                 /\ Blocks("nightly")[bk[1]].items[bk[2]].BRANCH = chosen[r].branch
                                 /\ Blocks("nightly")[bk[1]].name = NightlyListName(chosen[r].is_fast)
            /\ \A name \in ListNames("nightly") :
                   NonEmptyListNamed("nightly", name) =>
                       ReferenceCount("nightly", "nightly-forky-all", name) = 1

C22_Witness ==
    /\ written["nightly"].present
    /\ Len(GroupOf("nightly")) = 2
    /\ GroupOf("nightly")[1].branch = Vendor
    /\ GroupOf("nightly")[1].is_fast = "True"
    /\ GroupOf("nightly")[2].branch = Current
    /\ ListedIn("nightly", {"nightly-slow-hdmi"}, BoardA, Current)
    /\ ~ListedIn("nightly", {"nightly-fast-hdmi"}, BoardA, Vendor)

(***************************************************************************)
(* Properties of generate_exposed_map, over Spec.                          *)
(***************************************************************************)
\* The boards handed to the pattern emitter.
Merged == conf_wip_boards_stable \o csc_tvb_boards_community

\* The positions of the board's lines in the pattern file.
LinesOf(board) ==
    {i \in 1..Len(Blocks("exposed")) :
        Blocks("exposed")[i].board_pattern = capitalize_board_name(board)}

FirstLine(board) == CHOOSE i \in LinesOf(board) : \A k \in LinesOf(board) : i <= k

\* The image type of the second pair of a category.
SecondImageType(category) ==
    CASE category = "riscv64" -> "xfce_desktop"
      [] category = "True" -> "gnome_desktop"
      [] category = "False" -> "xfce_desktop"
      [] category = "None" -> "minimal"
      [] OTHER -> "none"

\* Lines i and i + 1 are the pair for a release and an image type: first with
\* the archive directory prefix, then without it.
IsPair(i, branch, release, image_type) ==
    /\ \A k \in {i, i + 1} :
           /\ Blocks("exposed")[k].release = release
           /\ Blocks("exposed")[k].image_type = image_type
           /\ Blocks("exposed")[k].branch = branch
    /\ Blocks("exposed")[i].dir_prefix # Empty
    /\ Blocks("exposed")[i + 1].dir_prefix = Empty

\* C23: in the written pattern file every board of the merged primary and
\* community groups has one contiguous run of lines, the runs are in
\* ascending order of board identifier, and a run is the trixie minimal pair
\* of the selected branch followed by nothing (loongarch), a noble
\* xfce_desktop pair (riscv64, slow), a noble gnome_desktop pair (fast) or a
\* noble minimal pair (headless): 2 lines for loongarch, 4 for the others.
C23_PatternsPerBoard ==
    written["exposed"].present =>
        LET chosen == select_one_branch_per_board(Merged).boards
        IN  /\ \A i \in 1..Len(Blocks("exposed")) :
                   \E board \in BoardsOf(Merged) : i \in LinesOf(board)
            /\ \A board \in BoardsOf(Merged) :
                   \E r \in 1..Len(chosen) :
                       /\ chosen[r].board = board
                       /\ LinesOf(board) # {}
                       /\ LinesOf(board) =
                              FirstLine(board)..(FirstLine(board)
                                  + (IF chosen[r].is_fast = "loongarch" THEN 1 ELSE 3))
                       /\ IsPair(FirstLine(board), chosen[r].branch, "trixie", "minimal")
                       /\ chosen[r].is_fast # "loongarch" =>
                              IsPair(FirstLine(board) + 2, chosen[r].branch, "noble",
                                     SecondImageType(chosen[r].is_fast))
            /\ \A x, y \in BoardsOf(Merged) :
                   TextLess(x, y) => FirstLine(x) < FirstLine(y)

C23_Witness ==
    /\ written["exposed"].present
    /\ Len(image_info) = 2
    /\ image_info[1].in.inventory.BOARD = UefiLoong64
    /\ image_info[2].in.inventory.BOARD = BoardA
    /\ image_info[2].in.vars.BRANCH = Vendor
    /\ Len(Blocks("exposed")) = 6
    /\ LinesOf(BoardA) = 1..4
    /\ Blocks("exposed")[3].image_type = "gnome_desktop"
    /\ LinesOf(UefiLoong64) = 5..6

(***************************************************************************)
(* Properties of the lists and targets of every manifest, over Spec.       *)
(***************************************************************************)
\* Every item of every list of manifest o, as <<block, position>>.
AllItems(o) ==
    {bk \in UNION {{<<j, k>> : k \in 1..Len(Blocks(o)[j].items)} : j \in 1..Len(Blocks(o))} :
        Blocks(o)[bk[1]].kind = "list"}

ItemAt(o, bk) == Blocks(o)[bk[1]].items[bk[2]]

\* C24: in every written manifest the items of every named list are in
\* non-decreasing order of board identifier, and no (board, branch) pair is an
\* item twice, in one list or in two lists of the manifest.
C24_ListsSortedAndDisjoint ==
    \A o \in Manifests :
        written[o].present =>
            /\ \A bk \in AllItems(o) :
                   bk[2] > 1 =>
                       ~TextLess(ItemAt(o, bk).BOARD, ItemAt(o, <<bk[1], bk[2] - 1>>).BOARD)
            /\ \A bk, cl \in AllItems(o) :
                   (/\ ItemAt(o, bk).BOARD = ItemAt(o, cl).BOARD
                    /\ ItemAt(o, bk).BRANCH = ItemAt(o, cl).BRANCH) => bk = cl

C24_Witness ==
    /\ written["apps"].present
    /\ Len(image_info) = 2
    /\ image_info[1].in.inventory.BOARD = BoardBX
    /\ image_info[2].in.inventory.BOARD = BoardA
    /\ Len(Blocks("apps")[1].items) = 2
    /\ Blocks("apps")[1].items[1].BOARD = BoardA
    /\ Blocks("apps")[1].items[2].BOARD = BoardBX

(***************************************************************************)
(* Properties of the map loaders on malformed lines, over SpecLoad.        *)
(***************************************************************************)
\* A line that is neither blank nor a comment and is not of the format the
\* loader for `key` reads.
Malformed(line, key) ==
    /\ Strip(line) # <<>>
    /\ Head(Strip(line)) # "#"
    /\ ~LineAccepted(Strip(line), key)

WithoutLine(file, i) ==
    [exists |-> file.exists,
     lines |-> SubSeq(file.lines, 1, i - 1) \o SubSeq(file.lines, i + 1, Len(file.lines))]

\* Some printed warning carries the line.
Warned(line) == \E w \in 1..Len(stderr) : Contains(stderr[w], line)

\* The entries loaded are those of the file without its malformed line i.
SkippedIn(file, key, loaded, i) ==
    loaded = IF key = KeyEnable THEN load_extensions_map(WithoutLine(file, i))
             ELSE load_remove_extensions_map(WithoutLine(file, i))

\* C25: after the two maps are loaded, for every malformed line of a map file
\* the entries loaded are those of the file without that line, and a warning
\* carrying the line has been printed.
C25_MalformedLineSkippedWithWarning ==
    pc = "load_image_info" =>
        /\ \A i \in 1..Len(extensions_map_file.lines) :
               Malformed(extensions_map_file.lines[i], KeyEnable) =>
                   /\ SkippedIn(extensions_map_file, KeyEnable, extensions_map, i)
                   /\ Warned(extensions_map_file.lines[i])
        /\ \A i \in 1..Len(remove_extensions_map_file.lines) :
               Malformed(remove_extensions_map_file.lines[i], KeyRemove) =>
                   /\ SkippedIn(remove_extensions_map_file, KeyRemove, remove_extensions_map, i)
                   /\ Warned(remove_extensions_map_file.lines[i])

\* The part of it that does not concern the warning: the malformed line is
\* skipped and the other lines are loaded as if it were absent.
C25_MalformedLineSkipped ==
    pc = "load_image_info" =>
        /\ \A i \in 1..Len(extensions_map_file.lines) :
               Malformed(extensions_map_file.lines[i], KeyEnable) =>
                   SkippedIn(extensions_map_file, KeyEnable, extensions_map, i)
        /\ \A i \in 1..Len(remove_extensions_map_file.lines) :
               Malformed(remove_extensions_map_file.lines[i], KeyRemove) =>
                   SkippedIn(remove_extensions_map_file, KeyRemove, remove_extensions_map, i)

(***************************************************************************)
(* Totality of select_one_branch_per_board, over SpecSelect.               *)
(***************************************************************************)
\* C26: select_one_branch_per_board completes without raising for every input
\* list, also when two entries of one board carry different KERNEL_TEST_TARGET
\* allow-lists or only one of them declares an allow-list.
C26_SelectNeverRaises ==
    ppc = "selected" => ~select_result.raised

(***************************************************************************)
(* Desktop targets of the standard-support manifest, over Spec.            *)
(***************************************************************************)
\* The lists referenced by the desktop targets of manifest o with this
\* desktop environment.
DesktopRefsOf(o, environment) ==
    UNION {{Blocks(o)[i].refs[k] : k \in 1..Len(Blocks(o)[i].refs)} :
              i \in {j \in 1..Len(Blocks(o)) :
                        /\ Blocks(o)[j].kind = "target"
                        /\ Blocks(o)[j].vars.BUILD_DESKTOP = "yes"
                        /\ Blocks(o)[j].vars.DESKTOP_ENVIRONMENT = environment}}

\* C27: in the written standard-support manifest every fast list (current,
\* vendor, legacy) that holds a board is referenced by the GNOME desktop
\* target, and every slow list that holds a board is referenced by an XFCE
\* desktop target, whether or not the current list of the category is empty.
C27_DesktopTargetsCoverFastAndSlow ==
    written["stable"].present =>
        /\ \A name \in {"stable-current-fast-hdmi", "stable-vendor-fast-hdmi",
                        "stable-legacy-fast-hdmi"} :
               NonEmptyListNamed("stable", name) =>
                   name \in RefsOf("stable", "desktop-stable-ubuntu-gnome")
        /\ \A name \in {"stable-current-slow-hdmi", "stable-vendor-slow-hdmi",
                        "stable-legacy-slow-hdmi"} :
               NonEmptyListNamed("stable", name) =>
                   name \in DesktopRefsOf("stable", "xfce")

\* The same when the current list of the category holds a board.
C27_WithCurrentList ==
    written["stable"].present =>
        /\ NonEmptyListNamed("stable", "stable-current-fast-hdmi") =>
               \A name \in {"stable-current-fast-hdmi", "stable-vendor-fast-hdmi",
                            "stable-legacy-fast-hdmi"} :
                   NonEmptyListNamed("stable", name) =>
                       name \in RefsOf("stable", "desktop-stable-ubuntu-gnome")
        /\ NonEmptyListNamed("stable", "stable-current-slow-hdmi") =>
               \A name \in {"stable-current-slow-hdmi", "stable-vendor-slow-hdmi"} :
                   NonEmptyListNamed("stable", name) =>
                       name \in DesktopRefsOf("stable", "xfce")

\* C28: in every written manifest every name referenced under a target's
\* items is the name of a list defined in the same document, and every target
\* references at least one list.
C28_ReferencesDefined ==
    \A o \in Manifests :
        written[o].present =>
            \A i \in 1..Len(Blocks(o)) :
                Blocks(o)[i].kind = "target" =>
                    /\ Blocks(o)[i].refs # <<>>
                    /\ \A k \in 1..Len(Blocks(o)[i].refs) :
                           Blocks(o)[i].refs[k] \in ListNames(o)

C28_Witness ==
    /\ written["stable"].present
    /\ Len(conf_wip_boards_stable) = 1
    /\ conf_wip_boards_stable[1].branch = Legacy
    /\ RefsOf("stable", "desktop-stable-ubuntu-gnome") = {"stable-legacy-fast-hdmi"}
    /\ RefsOf("stable", "desktop-stable-ubuntu-legacy-xfce") = {"stable-legacy-fast-hdmi"}
    /\ "stable-legacy-fast-hdmi" \in ListNames("stable")

(***************************************************************************)
(* Properties of the per-output sidecar files, over SpecSidecars.          *)
(***************************************************************************)
\* The boards listed in the blacklist file of output o.
Listed(o) ==
    {Strip(blacklist_files[o].lines[i]) : i \in 1..Len(blacklist_files[o].lines)}
        \ ({Empty} \cup {line \in {Strip(blacklist_files[o].lines[i]) :
                                      i \in 1..Len(blacklist_files[o].lines)} :
                            line # Empty /\ Head(line) = "#"})

\* What main generates for output o when the blacklist of each output is
\* given by blacklists.
ResultWith(o, blacklists) ==
    LET conf_wip(b) == extract_boards_by_support_level(
                           image_info, extensions_map, remove_extensions_map, b).conf_wip_boards
        csc_tvb(b) == extract_boards_by_support_level(
                          image_info, extensions_map, remove_extensions_map, b).csc_tvb_boards
    IN  CASE o = "apps" ->
                 generate_apps_yaml(conf_wip(blacklists["apps"]),
                                    load_manual_overrides(manual_files["apps"]))
          [] o = "stable" ->
                 generate_stable_yaml(conf_wip(blacklists["stable"]),
                                      load_manual_overrides(manual_files["stable"]))
          [] o = "nightly" ->
                 generate_nightly_yaml(conf_wip(blacklists["nightly"]),
                                       load_manual_overrides(manual_files["nightly"]))
          [] o = "community" ->
                 generate_community_yaml(csc_tvb(blacklists["community"]),
                                         load_manual_overrides(manual_files["community"]))
          [] o = "exposed" ->
                 generate_exposed_map(conf_wip(blacklists["stable"]),
                                      csc_tvb(blacklists["community"]))

RunOrder == <<"apps", "stable", "nightly", "community", "exposed">>

\* The files a run leaves behind: an output is written when no generation
\* step up to and including its own raised.
FinalWith(blacklists) ==
    [o \in Outputs |->
        IF \A k \in 1..Len(RunOrder) :
               (\E m \in k..Len(RunOrder) : RunOrder[m] = o)
                   => ~ResultWith(RunOrder[k], blacklists).raised
        THEN [present |-> TRUE, content |-> ResultWith(o, blacklists).content]
        ELSE NotWritten]

RunEnded == pc \in {"done", "raised"}

\* FinalWith on the blacklists of the run is what the run has written.
FinalAsWritten == RunEnded => written = FinalWith([o \in Outputs |-> Listed(o)])

AlternativeBlacklists == {{}, {BoardA}, {BoardB}}

\* A board listed in the blacklist of a manifest is in none of its lists.
ListedBoardsAbsent ==
    \A o \in Manifests :
        written[o].present =>
            \A board \in Listed(o) : ItemsOf(o, ListNames(o), board) = {}

\* Replacing the blacklist of manifest t leaves output o as the run wrote it.
Unchanged(t, o) ==
    \A alt \in AlternativeBlacklists :
        FinalWith([[u \in Outputs |-> Listed(u)] EXCEPT ![t] = alt])[o] = written[o]

\* C29: after a run, a board listed in a manifest's blacklist is in none of
\* that manifest's lists; the blacklist of one manifest does not change the
\* other manifests; and the apps and nightly blacklists do not change the
\* pattern file.
C29_BlacklistPerOutput ==
    RunEnded =>
        /\ ListedBoardsAbsent
        /\ \A t, o \in Manifests : o # t => Unchanged(t, o)
        /\ \A t \in {"apps", "nightly"} : Unchanged(t, "exposed")

\* The same between runs in which no generation step raises.
C29_BetweenCompleteRuns ==
    pc = "done" =>
        /\ ListedBoardsAbsent
        /\ \A t \in Manifests : \A alt \in AlternativeBlacklists :
               LET final == FinalWith([[u \in Outputs |-> Listed(u)] EXCEPT ![t] = alt])
               IN  final["exposed"].present =>
                       /\ \A o \in Manifests : o # t => final[o] = written[o]
                       /\ t \in {"apps", "nightly"} => final["exposed"] = written["exposed"]

\* The text of the manual file of output o ('' when there is none).
Appendix(o) == IF manual_files[o].exists THEN manual_files[o].content ELSE Empty

\* What is generated for manifest o when there is no manual text.
GeneratedAlone(o) ==
    CASE o = "apps" -> generate_apps_yaml(GroupOf(o), Empty).content
      [] o = "stable" -> generate_stable_yaml(GroupOf(o), Empty).content
      [] o = "nightly" -> generate_nightly_yaml(GroupOf(o), Empty).content
      [] o = "community" -> generate_community_yaml(GroupOf(o), Empty).content

\* A line of the appendix as it is to appear: two spaces before a line that
\* has a character other than white space, a blank line as it is.
Indented(line) ==
    IF \E i \in 1..Len(line) : line[i] \notin Whitespace
    THEN <<" ", " ">> \o line ELSE line

\* blocks without the block at position p
Dropping(blocks, p) == SubSeq(blocks, 1, p - 1) \o SubSeq(blocks, p + 1, Len(blocks))

\* C30: a written manifest whose manual file is absent or empty is exactly the
\* generated document; otherwise it is the generated document with one block
\* inserted after the lists (below 'targets:') that holds the lines of the
\* appendix once, in order, each non-blank line behind exactly two spaces and
\* each blank line unchanged.
C30_ManualPassedThrough ==
    \A o \in Manifests :
        written[o].present =>
            IF Appendix(o) = Empty THEN Blocks(o) = GeneratedAlone(o)
            ELSE \E p \in 1..Len(Blocks(o)) :
                     /\ Blocks(o)[p].kind = "manual"
                     /\ Dropping(Blocks(o), p) = GeneratedAlone(o)
                     /\ \A j \in 1..Len(Blocks(o)) : Blocks(o)[j].kind = "list" => j < p
                     /\ LET pieces == Split(Appendix(o), "\n")
                        IN  Blocks(o)[p].lines = [i \in 1..Len(pieces) |-> Indented(pieces[i])]

C30_Witness ==
    /\ written["stable"].present
    /\ Appendix("stable") = ManualText
    /\ Len(conf_wip_boards_stable) = 1
    /\ conf_wip_boards_stable[1].is_fast = "riscv64"
    /\ \E p \in 1..Len(Blocks("stable")) :
           /\ Blocks("stable")[p].kind = "manual"
           /\ Blocks("stable")[p].lines = <<<<" ", " ", "x", ":">>, <<" ">>, <<" ", " ", "y">>>>
           /\ p < Len(Blocks("stable"))
           /\ Blocks("stable")[p + 1].name = "minimal-stable-ubuntu-riscv"

====
